---- MODULE Spec2Model ----
(***************************************************************************)
(* joeml: a compiler from a small ML-like language to JavaScript.          *)
(*                                                                         *)
(* The model follows the pipeline of the repository:                       *)
(*   parse    (src/src/grammar/grammar.jml.pegjs, src/src/parser.ts)       *)
(*   generate (src/src/generator.ts)                                       *)
(*   run      (src/src/run.ts, src/test/hello_world_test.ts: eval of the   *)
(*             generated text, then a call of the exported entry point)    *)
(*                                                                         *)
(* Source text is a TLA+ string, read character by character as the PEG    *)
(* does.  Generated text is a sequence of JavaScript tokens, in the order  *)
(* the string templates of the generator write them; a line break of a     *)
(* template is the token "\n" (it matters after `return`).  The tokens are *)
(* read back by a parser of the JavaScript subset the templates can write, *)
(* and the result is executed on a stack machine with one frame per call.  *)
(***************************************************************************)
EXTENDS Integers, Sequences, FiniteSets, TLC

\* ------------------------------------------------------------------------
\* Helpers on sequences and strings
\* ------------------------------------------------------------------------

Range(s) == { s[i] : i \in 1..Len(s) }

RECURSIVE Flatten(_)
\* The concatenation of a sequence of sequences.
Flatten(ss) == IF ss = <<>> THEN <<>> ELSE Head(ss) \o Flatten(Tail(ss))

RECURSIVE Join(_, _)
\* Array.prototype.join on a sequence of token sequences.
Join(ss, sep) ==
   IF ss = <<>> THEN <<>>
   ELSE IF Len(ss) = 1 THEN ss[1]
   ELSE ss[1] \o sep \o Join(Tail(ss), sep)

Char(s, i) == SubSeq(s, i, i)

\* Of a sequence m that holds one entry for each of the last Len(m)
\* positions of s, the entry for position i.
Held(s, i, m) == m[i - (Len(s) - Len(m))]

Digits == {"0", "1", "2", "3", "4", "5", "6", "7", "8", "9"}

DigitValue(c) ==
   CASE c = "0" -> 0 [] c = "1" -> 1 [] c = "2" -> 2 [] c = "3" -> 3
     [] c = "4" -> 4 [] c = "5" -> 5 [] c = "6" -> 6 [] c = "7" -> 7
     [] c = "8" -> 8 [] c = "9" -> 9

RECURSIVE LeadingDigits(_, _, _)
\* The value of the longest prefix of digits of s from position i on,
\* acc being the value of the digits read so far.
LeadingDigits(s, i, acc) ==
   IF i <= Len(s) /\ Char(s, i) \in Digits
   THEN LeadingDigits(s, i + 1, 10 * acc + DigitValue(Char(s, i)))
   ELSE acc

\* parseInt(value).toString() of a node value: the decimal numeral of its
\* leading digits, "NaN" when it has none.
parseIntToString(value) ==
   IF Len(value) >= 1 /\ Char(value, 1) \in Digits
   THEN ToString(LeadingDigits(value, 1, 0))
   ELSE "NaN"

\* ------------------------------------------------------------------------
\* The AST (types of the repository)
\* ------------------------------------------------------------------------

Id(v) == [type |-> "lower-identifier", value |-> v]
Num(v) == [type |-> "number", value |-> v]
Str(v) == [type |-> "string", value |-> v]
App(n, ps) == [type |-> "application", name |-> Id(n), parameters |-> ps]
IfE(p, t, f) ==
   [type |-> "if-expression", predicate |-> p,
    true_expression |-> t, false_expression |-> f]
LetE(bs, b) == [type |-> "let-expression", bindings |-> bs, body |-> b]

\* ------------------------------------------------------------------------
\* The generator (src/src/generator.ts)
\* ------------------------------------------------------------------------

NL == "\n"

\* The keys of the infixFns object literal.
infixFns == {"==", "!=", "<=", ">=", "<", ">", "+", "-", "*"}

\* infixFns is a plain object: a lookup infixFns[name] also finds the
\* properties every object inherits from Object.prototype.
ObjectPrototypeKeys ==
   {"constructor", "toString", "valueOf", "hasOwnProperty", "isPrototypeOf",
    "propertyIsEnumerable", "toLocaleString", "__proto__",
    "__defineGetter__", "__defineSetter__", "__lookupGetter__",
    "__lookupSetter__"}

\* !_.isNil(infixFns[name])
infixFnsHas(name) == name \in infixFns \/ name \in ObjectPrototypeKeys

\* The token an exception of the generator leaves in place of the text it
\* was to return; generate turns it into the failure of the whole call.
THROWN == "<throw>"

RECURSIVE tailCallsInOperands(_, _, _)
\* The calls of fnName that tailCalls would find if it also followed the
\* arguments of the other applications.
tailCallsInOperands(fnName, expr, path) ==
   IF expr.type = "application" /\ expr.name.value = fnName THEN {path}
   ELSE IF expr.type = "application"
   THEN UNION { tailCallsInOperands(fnName, expr.parameters[i],
                                    Append(path, i)) :
                  i \in 1..Len(expr.parameters) }
   ELSE IF expr.type = "if-expression"
   THEN tailCallsInOperands(fnName, expr.true_expression, Append(path, 2))
        \cup tailCallsInOperands(fnName, expr.false_expression,
                                 Append(path, 3))
   ELSE IF expr.type = "let-expression"
   THEN tailCallsInOperands(fnName, expr.body, Append(path, 0))
   ELSE {}

RECURSIVE tailCalls(_, _, _)
\* tailCalls(fnName, expr): the calls of fnName found following if-branches
\* and let-bodies only.  A node is an object of the tree and is known by its
\* path from the body of the function: the code compares nodes by identity.
\* Paths: argument i of a call is i; of an if, the predicate is 1, the
\* branches 2 and 3; the body of a let is 0.
tailCalls(fnName, expr, path) ==
   IF expr.type = "application" /\ expr.name.value = fnName THEN {path}
   ELSE IF expr.type = "if-expression"
   THEN tailCalls(fnName, expr.true_expression, Append(path, 2))
        \cup tailCalls(fnName, expr.false_expression, Append(path, 3))
   ELSE IF expr.type = "let-expression"
   THEN tailCalls(fnName, expr.body, Append(path, 0))
   ELSE {}

Ret(ctx) == IF ctx.expect_return THEN <<"return">> ELSE <<>>

\* The context with the flag as it is.
SameReturn(ctx) == ctx

NoReturn(ctx) == [ctx EXCEPT !.expect_return = FALSE]

WithReturn(ctx) == [ctx EXCEPT !.expect_return = TRUE]

RECURSIVE generateExpression(_, _, _)
RECURSIVE generateFunction(_, _)
RECURSIVE makeFunctionCall(_, _, _)
RECURSIVE makeLetExpression(_, _, _)
RECURSIVE makeIfExpression(_, _, _)

\* The condition isLoopContinuation would be if the tail calls were looked
\* for in the call instead of in the body of the function.
isLoopContinuationInCall(ctx, fn, path) ==
   /\ ctx.fn.name.value = fn.name.value
   /\ Len(ctx.fn.parameters) = Len(fn.parameters)
   /\ path \in tailCalls(ctx.fn.name.value, fn, <<>>)

\* The condition of makeFunctionCall's first branch: the call is rewritten
\* as a loop continuation.
isLoopContinuation(ctx, fn, path) ==
   /\ ctx.fn.name.value = fn.name.value
   /\ Len(ctx.fn.parameters) = Len(fn.parameters)
   /\ path \in tailCalls(ctx.fn.name.value, ctx.fn.body, <<>>)

\* The condition of the parameter-reference branch.
isParameterReference(ctx, fn) ==
   /\ Len(fn.parameters) = 0
   /\ \E i \in 1..Len(ctx.fn.parameters) :
         ctx.fn.parameters[i].value = fn.name.value

\* makeFunctionCall with each parameter assigned its argument at once, one
\* after the other, and no temporaries.
makeFunctionCallInPlace(ctx, fn, path) ==
   IF isLoopContinuation(ctx, fn, path)
   THEN LET n == Len(ctx.fn.parameters)
            assigns ==
               Join([i \in 1..n |->
                        <<ctx.fn.parameters[i].value, "=">>
                        \o generateExpression(NoReturn(ctx), fn.parameters[i],
                                              Append(path, i))
                        \o <<";">>],
                    <<NL, NL>>)
        IN <<NL>> \o assigns \o <<NL, NL>>
           \o <<"continue", fn.name.value, ";", NL>>
   ELSE IF isParameterReference(ctx, fn)
   THEN Ret(ctx) \o <<fn.name.value>>
   ELSE LET n == Len(fn.parameters)
            parameter_expressions ==
               [i \in 1..n |->
                  generateExpression(NoReturn(ctx), fn.parameters[i],
                                     Append(path, i))]
            \* a template prints a missing array element as "undefined"
            pe(i) == IF i <= n THEN parameter_expressions[i]
                     ELSE <<"undefined">>
            parameters ==
               <<"(">> \o Join(parameter_expressions, <<",">>) \o <<")">>
            thrown == \E i \in 1..n : THROWN \in Range(parameter_expressions[i])
            function_application ==
               IF thrown THEN <<THROWN>>
               ELSE IF ~infixFnsHas(fn.name.value)
               THEN <<fn.name.value>> \o parameters
               ELSE pe(1) \o <<fn.name.value>> \o pe(2)
        IN Ret(ctx) \o function_application

makeFunctionCall(ctx, fn, path) ==
   IF isLoopContinuation(ctx, fn, path)
   THEN LET n == Len(ctx.fn.parameters)
            params ==
               Join([i \in 1..n |->
                        <<"var", "$$" \o ctx.fn.parameters[i].value, "=">>
                        \o generateExpression(NoReturn(ctx), fn.parameters[i],
                                              Append(path, i))
                        \o <<";">>],
                    <<NL, NL>>)
            assigns ==
               Join([i \in 1..n |->
                        <<ctx.fn.parameters[i].value, "=",
                          "$$" \o ctx.fn.parameters[i].value, ";">>],
                    <<NL, NL>>)
        IN <<NL>> \o params \o <<NL, NL>> \o assigns \o <<NL, NL>>
           \o <<"continue", fn.name.value, ";", NL>>
   ELSE IF isParameterReference(ctx, fn)
   THEN Ret(ctx) \o <<fn.name.value>>
   ELSE LET n == Len(fn.parameters)
            parameter_expressions ==
               [i \in 1..n |->
                  generateExpression(NoReturn(ctx), fn.parameters[i],
                                     Append(path, i))]
            \* a template prints a missing array element as "undefined"
            pe(i) == IF i <= n THEN parameter_expressions[i]
                     ELSE <<"undefined">>
            parameters ==
               <<"(">> \o Join(parameter_expressions, <<",">>) \o <<")">>
            thrown == \E i \in 1..n : THROWN \in Range(parameter_expressions[i])
            function_application ==
               IF thrown THEN <<THROWN>>
               ELSE IF ~infixFnsHas(fn.name.value)
               THEN <<fn.name.value>> \o parameters
               ELSE pe(1) \o <<fn.name.value>> \o pe(2)
        IN Ret(ctx) \o function_application

makeLetExpression(ctx, let_expr, path) ==
   <<"(", "function", "(", ")", "{", NL>>
   \o Join([i \in 1..Len(let_expr.bindings) |->
              generateFunction(ctx, let_expr.bindings[i])], <<NL, NL>>)
   \o <<NL, NL, "return", "(">>
   \o generateExpression(NoReturn(ctx), let_expr.body, Append(path, 0))
   \o <<")", ";", NL, "}", ")", "(", ")">>

makeIfExpression(ctx, expr, path) ==
   IF ctx.expect_return
   THEN <<NL, "if", "(">>
        \o generateExpression(NoReturn(ctx), expr.predicate, Append(path, 1))
        \o <<")", "{", NL>>
        \o generateExpression(WithReturn(ctx), expr.true_expression,
                              Append(path, 2))
        \o <<NL, "}", "else", "{", NL>>
        \o generateExpression(WithReturn(ctx), expr.false_expression,
                              Append(path, 3))
        \o <<NL, "}">>
   ELSE <<NL>>
        \o generateExpression(ctx, expr.predicate, Append(path, 1))
        \o <<NL, "?">>
        \o generateExpression(ctx, expr.true_expression, Append(path, 2))
        \o <<NL, ":">>
        \o generateExpression(ctx, expr.false_expression, Append(path, 3))
        \o <<NL>>

\* What generateExpression would return if it wrote an expression of
\* unknown type as undefined.
unhandledExpressionWritten(expr) == <<"undefined">>

\* The throw at the end of generateExpression.
unhandledExpression(expr) == <<THROWN>>

generateExpression(ctx, expr, path) ==
   IF expr.type = "application" THEN makeFunctionCall(ctx, expr, path)
   ELSE IF expr.type = "let-expression" THEN makeLetExpression(ctx, expr, path)
   ELSE IF expr.type = "if-expression" THEN makeIfExpression(ctx, expr, path)
   ELSE IF expr.type = "string"
   THEN IF ctx.expect_return THEN <<"return", expr.value, ";">>
        ELSE <<expr.value>>
   ELSE IF expr.type = "number"
   THEN IF ctx.expect_return
        THEN <<"return", parseIntToString(expr.value), ";">>
        ELSE <<parseIntToString(expr.value)>>
   ELSE unhandledExpression(expr)

\* makeBody of generateFunction.
makeBody(ctx, fn) ==
   LET body == generateExpression([ctx EXCEPT !.expect_return = TRUE,
                                              !.fn = fn], fn.body, <<>>)
   IN IF tailCalls(fn.name.value, fn.body, <<>>) = {}
      THEN body
      ELSE <<NL, fn.name.value, ":", NL, "while", "(", "true", ")", "{", NL>>
           \o body \o <<";", NL, "}">>

generateFunction(ctx, fn) ==
   <<NL, "function", fn.name.value, "(">>
   \o Join([i \in 1..Len(fn.parameters) |-> <<fn.parameters[i].value>>],
           <<",">>)
   \o <<")", "{", NL>> \o makeBody(ctx, fn) \o <<NL, "}">>

\* wrapProgram: the fixed text before and after the generated functions is
\* one token each; the functions are followed by the `;` of the template.
PROLOGUE == "<exports.main = function () { const io; print; printLn;>"

EPILOGUE == "<return function () { main() return io; }; }();>"

wrapProgram(body) == <<PROLOGUE>> \o body \o <<";", EPILOGUE>>

\* generate(program): the text, or GenerationError when an exception left
\* the generator.
GenerationError == <<THROWN>>

\* generate with a definition for the statements of every type.
generateEveryStatement(program) ==
   LET ctx == [fn |-> Id(""), expect_return |-> FALSE]
       text == wrapProgram(Join([i \in 1..Len(program.statements) |->
                                   IF program.statements[i].type
                                         = "function-declaration"
                                   THEN generateFunction(ctx, program.statements[i])
                                   ELSE <<NL, "function", "undefined", "(", ")",
                                          "{", NL, "}">>],
                                <<NL, NL>>))
   IN IF THROWN \in Range(text) THEN GenerationError ELSE text

generate(program) ==
   LET functions ==
          SelectSeq(program.statements,
                    LAMBDA n : n.type = "function-declaration")
       ctx == [fn |-> Id(""), expect_return |-> FALSE]
       text == wrapProgram(Join([i \in 1..Len(functions) |->
                                   generateFunction(ctx, functions[i])],
                                <<NL, NL>>))
   IN IF THROWN \in Range(text) THEN GenerationError ELSE text

\* ------------------------------------------------------------------------
\* Reading the generated text: the JavaScript subset of the templates
\* (the eval of src/src/run.ts and of the test harness)
\* ------------------------------------------------------------------------

\* Words that are no identifiers in (strict mode) JavaScript.
JSReserved ==
   {"break", "case", "catch", "class", "const", "continue", "debugger",
    "default", "delete", "do", "else", "enum", "export", "extends", "false",
    "finally", "for", "function", "if", "import", "in", "instanceof", "new",
    "null", "return", "super", "switch", "this", "throw", "true", "try",
    "typeof", "var", "void", "while", "with", "let", "static", "yield",
    "implements", "interface", "package", "private", "protected", "public"}

IdentStart ==
   {"a","b","c","d","e","f","g","h","i","j","k","l","m","n","o","p","q","r",
    "s","t","u","v","w","x","y","z","A","B","C","D","E","F","G","H","I","J",
    "K","L","M","N","O","P","Q","R","S","T","U","V","W","X","Y","Z","_","$"}

IsNumberToken(t) == Len(t) >= 1 /\ Char(t, 1) \in Digits
IsStringToken(t) == Len(t) >= 2 /\ Char(t, 1) = "\"" /\ Char(t, Len(t)) = "\""
IsIdentToken(t) ==
   Len(t) >= 1 /\ Char(t, 1) \in IdentStart /\ t \notin JSReserved

\* Token i of ts, "" past the end.
Tok(ts, i) == IF i >= 1 /\ i <= Len(ts) THEN ts[i] ELSE ""

\* The first position from i on that holds no line break.
Nx(ts, i) ==
   IF i > Len(ts) THEN i
   ELSE CHOOSE j \in i..(Len(ts) + 1) :
           /\ \A k \in i..(j - 1) : ts[k] = NL
           /\ j <= Len(ts) => ts[j] # NL

\* Instructions of the stack machine the text is read into.
INum(n) == [op |-> "num", n |-> n]
IStr(s) == [op |-> "str", s |-> s]
ILoad(x) == [op |-> "load", x |-> x]
ICallee(x) == [op |-> "callee", x |-> x]
IClosure(f) == [op |-> "closure", f |-> f]
ICall(argc) == [op |-> "call", argc |-> argc]
IBin(o) == [op |-> "bin", o |-> o]
IJmpF(d) == [op |-> "jmpf", d |-> d]
IJmp(d) == [op |-> "jmp", d |-> d]
ILoop(l) == [op |-> "loop", l |-> l]
IContinue(l) == [op |-> "continue", l |-> l]
IStore(x) == [op |-> "store", x |-> x]
IPop == [op |-> "pop"]
IRet == [op |-> "ret"]
IRetU == [op |-> "retu"]

\* What a production read: the position after it, its code, the functions
\* written in it, the names it declares with var; of statements also jumps,
\* the labels they continue to without lying in a loop of that label, and
\* lbls, the labels of the loops in them.
Bad == [ok |-> FALSE]

Ok(pos, code, fns, vars) ==
   [ok |-> TRUE, pos |-> pos, code |-> code, fns |-> fns, vars |-> vars,
    jumps |-> {}, lbls |-> {}]

\* A function is its own parent until the function around it is read, which
\* takes the functions written in it as its own.
Adopt(fns, id) ==
   { IF f.parent = f.id THEN [f EXCEPT !.parent = id] ELSE f : f \in fns }

\* Binary operators by precedence level, lowest first; all left-associative.
Levels == <<{"==", "!="}, {"<", "<=", ">", ">="}, {"+", "-"}, {"*"}>>

OpsAt(lvl) == IF lvl \in 1..Len(Levels) THEN Levels[lvl] ELSE {}

MaxLevel == Len(Levels)

\* The productions refer to one another through Read(name, ts, i, m), the
\* result of production name at position i.  The results of the productions
\* of Kept are kept per position: m holds them for the last Len(m) positions
\* of ts, and a production is worked out only where m does not hold it.
RECURSIVE Read(_, _, _, _)
RECURSIVE PBin(_, _, _, _), PBinRest(_, _, _, _)
RECURSIVE PArgs(_, _, _, _, _), PParams(_, _, _)

Kept == {"PPrimary", "PCond", "PStmt", "PStmts"}

\* ConditionalExpression: a ? b : c, the branches conditional expressions.
PCond(ts, i, m) ==
   LET a == PBin(ts, i, m, 1)
   IN IF ~a.ok THEN Bad
      ELSE IF Tok(ts, Nx(ts, a.pos)) # "?" THEN a
      ELSE LET t == Read("PCond", ts, Nx(ts, a.pos) + 1, m)
           IN IF ~t.ok \/ Tok(ts, Nx(ts, t.pos)) # ":" THEN Bad
              ELSE LET f == Read("PCond", ts, Nx(ts, t.pos) + 1, m)
                   IN IF ~f.ok THEN Bad
                      ELSE Ok(f.pos,
                              a.code \o <<IJmpF(Len(t.code) + 1)>> \o t.code
                              \o <<IJmp(Len(f.code))>> \o f.code,
                              a.fns \cup t.fns \cup f.fns, {})

PBin(ts, i, m, lvl) ==
   IF lvl > MaxLevel THEN Read("PPrimary", ts, i, m)
   ELSE LET a == PBin(ts, i, m, lvl + 1)
        IN IF ~a.ok THEN Bad ELSE PBinRest(ts, a, m, lvl)

\* left, then every (operator, operand) of this level that follows it.
PBinRest(ts, left, m, lvl) ==
   LET j == Nx(ts, left.pos)
   IN IF Tok(ts, j) \notin OpsAt(lvl) THEN left
      ELSE LET r == PBin(ts, j + 1, m, lvl + 1)
           IN IF ~r.ok THEN Bad
              ELSE PBinRest(ts,
                            Ok(r.pos, left.code \o r.code \o <<IBin(ts[j])>>,
                               left.fns \cup r.fns, {}),
                            m, lvl)

\* The arguments of a call from position i (after the "("), n of them read
\* so far into code.
PArgs(ts, i, m, n, acc) ==
   LET j == Nx(ts, i)
   IN IF n = 0 /\ Tok(ts, j) = ")" THEN [acc EXCEPT !.pos = j + 1, !.vars = {0}]
      ELSE LET e == Read("PCond", ts, j, m)
           IN IF ~e.ok THEN Bad
              ELSE LET k == Nx(ts, e.pos)
                       got == Ok(k + 1, acc.code \o e.code,
                                 acc.fns \cup e.fns, {n + 1})
                   IN IF Tok(ts, k) = ")" THEN got
                      ELSE IF Tok(ts, k) = "," THEN PArgs(ts, k + 1, m, n + 1, got)
                      ELSE Bad

PPrimary(ts, i, m) ==
   LET j == Nx(ts, i)
       t == Tok(ts, j)
       k == Nx(ts, j + 1)
   IN CASE IsNumberToken(t) -> Ok(j + 1, <<INum(LeadingDigits(t, 1, 0))>>, {}, {})
        [] IsStringToken(t) -> Ok(j + 1, <<IStr(t)>>, {}, {})
        [] IsIdentToken(t) /\ Tok(ts, k) # "(" -> Ok(j + 1, <<ILoad(t)>>, {}, {})
        [] IsIdentToken(t) /\ Tok(ts, k) = "(" ->
             LET as == PArgs(ts, k + 1, m, 0, Ok(0, <<>>, {}, {}))
             IN IF ~as.ok THEN Bad
                ELSE Ok(as.pos,
                        <<ICallee(t)>> \o as.code
                        \o <<ICall(CHOOSE n \in as.vars : TRUE)>>,
                        as.fns, {})
        [] t = "(" /\ Tok(ts, k) = "function" ->
             \* (function () { ... })(): no continue leaves a function
             LET k1 == Nx(ts, k + 1)
                 k2 == Nx(ts, k1 + 1)
                 k3 == Nx(ts, k2 + 1)
             IN IF Tok(ts, k1) # "(" \/ Tok(ts, k2) # ")" \/ Tok(ts, k3) # "{"
                THEN Bad
                ELSE LET b == Read("PStmts", ts, k3 + 1, m)
                     IN IF ~b.ok \/ b.jumps # {} THEN Bad
                        ELSE LET c1 == Nx(ts, b.pos)
                                 c2 == Nx(ts, c1 + 1)
                                 c3 == Nx(ts, c2 + 1)
                                 c4 == Nx(ts, c3 + 1)
                                 f == [id |-> k, name |-> "", params |-> <<>>,
                                       code |-> b.code \o <<IRetU>>,
                                       vars |-> b.vars, parent |-> k,
                                       kind |-> "expr"]
                             IN IF Tok(ts, c1) # "}" \/ Tok(ts, c2) # ")"
                                   \/ Tok(ts, c3) # "(" \/ Tok(ts, c4) # ")"
                                THEN Bad
                                ELSE Ok(c4 + 1, <<IClosure(k), ICall(0)>>,
                                        Adopt(b.fns, k) \cup {f}, {})
        [] t = "(" /\ Tok(ts, k) # "function" ->
             LET e == Read("PCond", ts, j + 1, m)
             IN IF ~e.ok \/ Tok(ts, Nx(ts, e.pos)) # ")" THEN Bad
                ELSE [e EXCEPT !.pos = Nx(ts, e.pos) + 1]
        [] OTHER -> Bad

\* `;`, or what automatic semicolon insertion accepts in its place: a `}`,
\* the end of the text, or a line break before the next token.
Terminator(ts, pos) ==
   LET j == Nx(ts, pos)
   IN IF Tok(ts, j) = ";" THEN j + 1
      ELSE IF j > Len(ts) \/ Tok(ts, j) = "}" \/ Tok(ts, j) = EPILOGUE \/ j > pos
      THEN j
      ELSE 0

\* The parameter names of a function declaration from position i (after the
\* "("), up to and including the ")".
PParams(ts, i, acc) ==
   LET j == Nx(ts, i)
   IN IF acc = <<>> /\ Tok(ts, j) = ")"
      THEN [ok |-> TRUE, pos |-> j + 1, params |-> <<>>]
      ELSE IF ~IsIdentToken(Tok(ts, j)) THEN Bad
      ELSE LET k == Nx(ts, j + 1)
               got == Append(acc, ts[j])
           IN IF Tok(ts, k) = ")"
              THEN [ok |-> TRUE, pos |-> k + 1, params |-> got]
              ELSE IF Tok(ts, k) = "," THEN PParams(ts, k + 1, got)
              ELSE Bad

\* The statements from position i up to a "}" or the end of the functions.
PStmts(ts, i, m) ==
   LET j == Nx(ts, i)
   IN IF j > Len(ts) \/ Tok(ts, j) = "}" \/ Tok(ts, j) = EPILOGUE
      THEN Ok(j, <<>>, {}, {})
      ELSE LET s == Read("PStmt", ts, j, m)
           IN IF ~s.ok THEN Bad
              ELSE LET r == Read("PStmts", ts, s.pos, m)
                   IN IF ~r.ok THEN Bad
                      ELSE [Ok(r.pos, s.code \o r.code, s.fns \cup r.fns,
                               s.vars \cup r.vars)
                              EXCEPT !.jumps = s.jumps \cup r.jumps,
                                     !.lbls = s.lbls \cup r.lbls]

\* A block "{" statements "}" from position i; the position after it.
PBlock(ts, i, m) ==
   IF Tok(ts, Nx(ts, i)) # "{" THEN Bad
   ELSE LET b == Read("PStmts", ts, Nx(ts, i) + 1, m)
        IN IF ~b.ok \/ Tok(ts, Nx(ts, b.pos)) # "}" THEN Bad
           ELSE [b EXCEPT !.pos = Nx(ts, b.pos) + 1]

PStmt(ts, j, m) ==
   LET t == Tok(ts, j)
       t2 == Tok(ts, Nx(ts, j + 1))
   IN CASE t = ";" -> Ok(j + 1, <<>>, {}, {})
        [] t = "function" ->
             \* function name (params) { body }: strict mode, no parameter
             \* twice; no continue leaves a function
             LET k == Nx(ts, j + 1)
                 ps == IF IsIdentToken(Tok(ts, k)) /\ Tok(ts, Nx(ts, k + 1)) = "("
                       THEN PParams(ts, Nx(ts, k + 1) + 1, <<>>)
                       ELSE Bad
             IN IF ~ps.ok \/ Cardinality(Range(ps.params)) # Len(ps.params)
                THEN Bad
                ELSE LET b == PBlock(ts, ps.pos, m)
                     IN IF ~b.ok \/ b.jumps # {} THEN Bad
                        ELSE Ok(b.pos, <<>>,
                                Adopt(b.fns, j) \cup
                                   {[id |-> j, name |-> ts[k], params |-> ps.params,
                                     code |-> b.code \o <<IRetU>>, vars |-> b.vars,
                                     parent |-> j, kind |-> "decl"]},
                                {})
        [] t = "if" ->
             LET p == IF t2 = "(" THEN Read("PCond", ts, Nx(ts, j + 1) + 1, m)
                      ELSE Bad
             IN IF ~p.ok \/ Tok(ts, Nx(ts, p.pos)) # ")" THEN Bad
                ELSE LET a == PBlock(ts, Nx(ts, p.pos) + 1, m)
                     IN IF ~a.ok \/ Tok(ts, Nx(ts, a.pos)) # "else" THEN Bad
                        ELSE LET b == PBlock(ts, Nx(ts, a.pos) + 1, m)
                             IN IF ~b.ok THEN Bad
                                ELSE [Ok(b.pos,
                                         p.code \o <<IJmpF(Len(a.code) + 1)>>
                                         \o a.code \o <<IJmp(Len(b.code))>>
                                         \o b.code,
                                         p.fns \cup a.fns \cup b.fns,
                                         a.vars \cup b.vars)
                                        EXCEPT !.jumps = a.jumps \cup b.jumps,
                                               !.lbls = a.lbls \cup b.lbls]
        [] t = "return" ->
             \* no line break may follow `return` before its expression
             IF Tok(ts, j + 1) \in {NL, ";", "}", ""}
             THEN Ok(IF t2 = ";" THEN Nx(ts, j + 1) + 1 ELSE j + 1,
                     <<IRetU>>, {}, {})
             ELSE LET e == Read("PCond", ts, j + 1, m)
                  IN IF ~e.ok \/ Terminator(ts, e.pos) = 0 THEN Bad
                     ELSE Ok(Terminator(ts, e.pos), e.code \o <<IRet>>, e.fns, {})
        [] t = "var" ->
             LET k == Nx(ts, j + 1)
                 e == IF IsIdentToken(Tok(ts, k)) /\ Tok(ts, Nx(ts, k + 1)) = "="
                      THEN Read("PCond", ts, Nx(ts, k + 1) + 1, m)
                      ELSE Bad
             IN IF ~e.ok \/ Terminator(ts, e.pos) = 0 THEN Bad
                ELSE Ok(Terminator(ts, e.pos), e.code \o <<IStore(ts[k])>>,
                        e.fns, {ts[k]})
        [] t = "continue" ->
             \* the label is to be that of a loop around it in the function
             IF IsIdentToken(Tok(ts, j + 1)) /\ Terminator(ts, j + 2) # 0
             THEN [Ok(Terminator(ts, j + 2), <<IContinue(ts[j + 1])>>, {}, {})
                     EXCEPT !.jumps = {ts[j + 1]}]
             ELSE Bad
        [] IsIdentToken(t) /\ t2 = ":" ->
             \* label: while (true) { body }, the label of no loop in the body
             LET k == Nx(ts, Nx(ts, j + 1) + 1)
                 k1 == Nx(ts, k + 1)
                 k2 == Nx(ts, k1 + 1)
                 k3 == Nx(ts, k2 + 1)
             IN IF Tok(ts, k) # "while" \/ Tok(ts, k1) # "(" \/ Tok(ts, k2) # "true"
                   \/ Tok(ts, k3) # ")"
                THEN Bad
                ELSE LET b == PBlock(ts, k3 + 1, m)
                     IN IF ~b.ok \/ t \in b.lbls THEN Bad
                        ELSE [Ok(b.pos,
                                 <<ILoop(t)>> \o b.code \o <<IContinue(t)>>,
                                 b.fns, b.vars)
                                EXCEPT !.jumps = b.jumps \ {t},
                                       !.lbls = b.lbls \cup {t}]
        [] IsIdentToken(t) /\ t2 = "=" ->
             LET e == Read("PCond", ts, Nx(ts, j + 1) + 1, m)
             IN IF ~e.ok \/ Terminator(ts, e.pos) = 0 THEN Bad
                ELSE Ok(Terminator(ts, e.pos), e.code \o <<IStore(t)>>, e.fns, {})
        [] OTHER ->
             \* an expression statement
             LET e == Read("PCond", ts, j, m)
             IN IF ~e.ok \/ Terminator(ts, e.pos) = 0 THEN Bad
                ELSE Ok(Terminator(ts, e.pos), e.code \o <<IPop>>, e.fns, {})

Read(name, ts, i, m) ==
   CASE name \in Kept /\ i > Len(ts) - Len(m) /\ i <= Len(ts) ->
           Held(ts, i, m)[name]
     [] name = "PCond" -> PCond(ts, i, m)
     [] name = "PPrimary" -> PPrimary(ts, i, m)
     [] name = "PStmts" -> PStmts(ts, i, m)
     [] name = "PStmt" -> PStmt(ts, i, m)

\* The results of the productions of Kept at position i, m holding those of
\* the positions after i.
ReadAt(ts, i, m) ==
   [PPrimary |-> Read("PPrimary", ts, i, m),
    PCond |-> Read("PCond", ts, i, m),
    PStmt |-> Read("PStmt", ts, i, m),
    PStmts |-> Read("PStmts", ts, i, m)]

RECURSIVE ReadAll(_, _, _, _)
\* m with the results at the positions lo..hi before it, the later half of
\* the positions first.
ReadAll(ts, lo, hi, m) ==
   IF lo > hi THEN m
   ELSE IF lo = hi THEN <<ReadAt(ts, lo, m)>> \o m
   ELSE CHOOSE all \in
           { ReadAll(ts, lo, (lo + hi) \div 2, later) :
               later \in {ReadAll(ts, (lo + hi) \div 2 + 1, hi, m)} } : TRUE

\* The generated text read as a program: its functions, or SyntaxError.
SyntaxError == [ok |-> FALSE]

LoadProgram(ts) ==
   IF Len(ts) < 2 \/ ts[1] # PROLOGUE \/ ts[Len(ts)] # EPILOGUE
   THEN SyntaxError
   ELSE CHOOSE loaded \in
           { IF ~b.ok \/ b.jumps # {} \/ Nx(ts, b.pos) # Len(ts)
             THEN SyntaxError
             ELSE [ok |-> TRUE, fns |-> Adopt(b.fns, 0)] :
               b \in { Read("PStmts", ts, 2, m) :
                         m \in {ReadAll(ts, 2, Len(ts), <<>>)} } } : TRUE

\* ------------------------------------------------------------------------
\* Values and operators of the generated code
\* ------------------------------------------------------------------------

VNum(n) == [t |-> "num", n |-> n]
VStr(s) == [t |-> "str", s |-> s]
VBool(b) == [t |-> "bool", b |-> b]
VUndef == [t |-> "undef"]
VNaN == [t |-> "nan"]
VFn(id, env) == [t |-> "fn", id |-> id, env |-> env]
VBuiltin(name) == [t |-> "builtin", name |-> name]
\* A coercion of JavaScript this model does not compute.
VUnmodelled == [t |-> "unmodelled"]

\* String(v), as `+=` on io.stdout and `+` on a string convert a value.
ToStr(v) ==
   CASE v.t = "num" -> ToString(v.n)
     [] v.t = "str" -> v.s
     [] v.t = "bool" -> IF v.b THEN "true" ELSE "false"
     [] v.t = "undef" -> "undefined"
     [] v.t = "nan" -> "NaN"
     [] OTHER -> "<function>"

RECURSIVE AllDigits(_, _)
AllDigits(s, i) == i > Len(s) \/ (Char(s, i) \in Digits /\ AllDigits(s, i + 1))

\* Number(v); NaN is VNaN.
ToNum(v) ==
   CASE v.t = "num" -> v
     [] v.t = "bool" -> VNum(IF v.b THEN 1 ELSE 0)
     [] v.t = "str" -> IF AllDigits(v.s, 1) THEN VNum(LeadingDigits(v.s, 1, 0))
                       ELSE VNaN
     [] OTHER -> VNaN

Truthy(v) ==
   CASE v.t = "num" -> v.n # 0
     [] v.t = "str" -> v.s # ""
     [] v.t = "bool" -> v.b
     [] v.t \in {"undef", "nan"} -> FALSE
     [] OTHER -> TRUE

\* a == b of JavaScript.
LooseEq(a, b) ==
   IF a.t = b.t
   THEN CASE a.t = "num" -> a.n = b.n
          [] a.t = "str" -> a.s = b.s
          [] a.t = "bool" -> a.b = b.b
          [] a.t = "undef" -> TRUE
          [] a.t = "nan" -> FALSE
          [] a.t = "fn" -> a.id = b.id /\ a.env = b.env
          [] OTHER -> a.name = b.name
   ELSE IF {a.t, b.t} \cap {"undef", "fn", "builtin", "nan"} # {} THEN FALSE
   ELSE LET x == ToNum(a)
            y == ToNum(b)
        IN x.t = "num" /\ y.t = "num" /\ x.n = y.n

Arith(o, x, y) ==
   IF x.t # "num" \/ y.t # "num" THEN VNaN
   ELSE CASE o = "+" -> VNum(x.n + y.n)
          [] o = "-" -> VNum(x.n - y.n)
          [] o = "*" -> VNum(x.n * y.n)

Compare(o, x, y) ==
   IF x.t # "num" \/ y.t # "num" THEN VBool(FALSE)
   ELSE CASE o = "<" -> VBool(x.n < y.n)
          [] o = "<=" -> VBool(x.n <= y.n)
          [] o = ">" -> VBool(x.n > y.n)
          [] o = ">=" -> VBool(x.n >= y.n)

\* a o b for the binary operators the generator can write.
BinOp(o, a, b) ==
   CASE o = "==" -> VBool(LooseEq(a, b))
     [] o = "!=" -> VBool(~LooseEq(a, b))
     [] o = "+" -> IF {a.t, b.t} \cap {"str", "fn", "builtin"} # {}
                   THEN VStr(ToStr(a) \o ToStr(b))
                   ELSE Arith(o, ToNum(a), ToNum(b))
     [] o \in {"-", "*"} ->
          IF {a.t, b.t} \cap {"fn", "builtin"} # {} THEN VNaN
          ELSE Arith(o, ToNum(a), ToNum(b))
     [] OTHER -> IF {a.t, b.t} \cap {"fn", "builtin"} # {} THEN VBool(FALSE)
                 ELSE IF a.t = "str" /\ b.t = "str" THEN VUnmodelled
                 ELSE Compare(o, ToNum(a), ToNum(b))

\* ------------------------------------------------------------------------
\* State
\* ------------------------------------------------------------------------

VARIABLES
   phase,    \* "source", "parsed", "generated", "loaded", "running", "failed"
   src,      \* the source text
   ast,      \* the Program parse returned
   js,       \* the text generate returned
   prog,     \* the functions of the evaluated text
   stack,    \* the call stack of the running code, innermost frame last
   stdout,   \* io.stdout of the wrapped program
   result,   \* what the last call of main returned
   error,    \* the exception that ended the compilation or the run
   calls,    \* completed calls of the exported entry point
   cli       \* the process of the command line: its arguments and locals,
             \* what it wrote, how it exited, and whether beautify.js fails

vars == <<phase, src, ast, js, prog, stack, stdout, result, error, calls, cli>>

NoAst == [type |-> "none"]
NoText == <<>>
NoResult == [t |-> "none"]
NoCli == [pc |-> "none"]

\* Frames the host allows on the call stack; one more is a RangeError.
MaxStack == 12

\* Calls of the exported entry point made on one evaluated text.
MaxCalls == 2

\* ------------------------------------------------------------------------
\* The stack machine
\* ------------------------------------------------------------------------

FnOf(id) == CHOOSE f \in prog : f.id = id

Top == stack[Len(stack)]

Instr == FnOf(Top.fn).code[Top.pc]

\* The function declarations named x wherever they are written: what
\* DeclsOf would be if a declaration were visible outside its function.
DeclsAnywhere(ow, x) == { f \in prog : f.kind = "decl" /\ f.name = x }

\* The function declarations named x directly in the body of function ow;
\* of two declarations of a name in a scope the later one stands.
DeclsOf(ow, x) ==
   { f \in prog : f.parent = ow /\ f.kind = "decl" /\ f.name = x }

LastDecl(fs) == CHOOSE f \in fs : \A g \in fs : g.id <= f.id

Unbound == [found |-> FALSE]
Bound(v, at) == [found |-> TRUE, val |-> v, at |-> at]

RECURSIVE Lookup(_, _, _)
\* Identifier x as seen from frame k of stk, through the scopes around it:
\* the function's own parameters and variables, the functions declared in
\* it, then the activation it was created in; at the end the wrapper's
\* scope (k = 0) and the two globals a template can name.
Lookup(stk, k, x) ==
   IF k = 0
   THEN IF DeclsOf(0, x) # {} THEN Bound(VFn(LastDecl(DeclsOf(0, x)).id, 0), 0)
        ELSE IF x \in {"print", "printLn"} THEN Bound(VBuiltin(x), 0)
        ELSE IF x = "undefined" THEN Bound(VUndef, 0)
        ELSE IF x = "NaN" THEN Bound(VNaN, 0)
        ELSE Unbound
   ELSE IF x \in DOMAIN stk[k].vars THEN Bound(stk[k].vars[x], k)
   ELSE IF DeclsOf(stk[k].fn, x) # {}
   THEN Bound(VFn(LastDecl(DeclsOf(stk[k].fn, x)).id, k), k)
   ELSE Lookup(stk, stk[k].link, x)

\* The frame of a call of function f with arguments args, created in the
\* activation env: parameters by position, undefined when not passed.
NewFrame(f, args, env) ==
   [fn |-> f.id, pc |-> 1, ost |-> <<>>, link |-> env,
    vars |-> [x \in Range(f.params) \cup f.vars |->
                IF \E i \in 1..Len(f.params) : f.params[i] = x
                THEN LET i == CHOOSE i \in 1..Len(f.params) : f.params[i] = x
                     IN IF i <= Len(args) THEN args[i] ELSE VUndef
                ELSE VUndef]]

\* The top frame with v pushed and the instruction done.
Push(v) ==
   [stack EXCEPT ![Len(stack)] =
      [@ EXCEPT !.ost = Append(@, v), !.pc = @ + 1]]

Jump(pc) == [stack EXCEPT ![Len(stack)] = [@ EXCEPT !.pc = pc]]

Running == phase = "running" /\ stack # <<>>

Throw(e) ==
   /\ phase' = "failed"
   /\ error' = e
   /\ stack' = <<>>
   /\ UNCHANGED <<src, ast, js, prog, stdout, result, calls, cli>>

\* A literal or a function expression is evaluated.
StepPush ==
   /\ Running
   /\ Instr.op \in {"num", "str", "closure"}
   /\ stack' = Push(CASE Instr.op = "num" -> VNum(Instr.n)
                      [] Instr.op = "str" ->
                           VStr(SubSeq(Instr.s, 2, Len(Instr.s) - 1))
                      [] OTHER -> VFn(Instr.f, Len(stack)))
   /\ UNCHANGED <<phase, src, ast, js, prog, stdout, result, error, calls, cli>>

\* An identifier is read, as a value or as the callee of a call.
StepLoad ==
   /\ Running
   /\ Instr.op \in {"load", "callee"}
   /\ Lookup(stack, Len(stack), Instr.x).found
   /\ stack' = Push(Lookup(stack, Len(stack), Instr.x).val)
   /\ UNCHANGED <<phase, src, ast, js, prog, stdout, result, error, calls, cli>>

StepBin ==
   /\ Running
   /\ Instr.op = "bin"
   /\ LET n == Len(Top.ost)
          v == BinOp(Instr.o, Top.ost[n - 1], Top.ost[n])
      IN /\ v # VUnmodelled
         /\ stack' = [stack EXCEPT ![Len(stack)] =
                        [@ EXCEPT !.ost = Append(SubSeq(@, 1, n - 2), v),
                                  !.pc = @ + 1]]
   /\ UNCHANGED <<phase, src, ast, js, prog, stdout, result, error, calls, cli>>

\* if / ?: on the value on top, the end of a branch, the head of the loop,
\* `continue` and the end of the loop body.
StepJump ==
   /\ Running
   /\ Instr.op \in {"jmpf", "jmp", "loop", "continue"}
   /\ stack' =
         CASE Instr.op = "jmpf" ->
                [stack EXCEPT ![Len(stack)] =
                   [@ EXCEPT !.ost = SubSeq(@, 1, Len(@) - 1),
                             !.pc = IF Truthy(Top.ost[Len(Top.ost)])
                                    THEN @ + 1 ELSE @ + 1 + Instr.d]]
           [] Instr.op = "jmp" -> Jump(Top.pc + 1 + Instr.d)
           [] Instr.op = "loop" -> Jump(Top.pc + 1)
           [] OTHER ->
                Jump(CHOOSE i \in 1..Len(FnOf(Top.fn).code) :
                        FnOf(Top.fn).code[i] = ILoop(Instr.l))
   /\ UNCHANGED <<phase, src, ast, js, prog, stdout, result, error, calls, cli>>

\* var x = e, x = e, and an expression statement dropping its value.
StepStore ==
   /\ Running
   /\ Instr.op \in {"store", "pop"}
   /\ Instr.op = "store" => Lookup(stack, Len(stack), Instr.x).found
   /\ LET n == Len(Top.ost)
          popped == [stack EXCEPT ![Len(stack)] =
                       [@ EXCEPT !.ost = SubSeq(@, 1, n - 1), !.pc = @ + 1]]
      IN stack' =
            IF Instr.op = "pop" THEN popped
            ELSE [popped EXCEPT
                    ![Lookup(stack, Len(stack), Instr.x).at].vars[Instr.x] =
                       Top.ost[n]]
   /\ UNCHANGED <<phase, src, ast, js, prog, stdout, result, error, calls, cli>>

\* The callee and the arguments of the call on top of the operand stack.
Callee == Top.ost[Len(Top.ost) - Instr.argc]
Args == SubSeq(Top.ost, Len(Top.ost) - Instr.argc + 1, Len(Top.ost))

\* A call of a generated function: one more frame.
StepCall ==
   /\ Running
   /\ Instr.op = "call"
   /\ Callee.t = "fn"
   /\ Len(stack) < MaxStack
   /\ stack' = Append(stack, NewFrame(FnOf(Callee.id), Args, Callee.env))
   /\ UNCHANGED <<phase, src, ast, js, prog, stdout, result, error, calls, cli>>

\* print(str): io.stdout += str; printLn(str): io.stdout += str + '\n'.
\* print with the line break of printLn.
StepPrintLine ==
   /\ Running
   /\ Instr.op = "call"
   /\ Callee.t = "builtin"
   /\ LET str == IF Instr.argc = 0 THEN VUndef ELSE Args[1]
      IN stdout' = stdout \o ToStr(BinOp("+", str, VStr(NL)))
   /\ stack' = [stack EXCEPT ![Len(stack)] =
                  [@ EXCEPT !.ost = Append(SubSeq(@, 1, Len(@) - Instr.argc - 1),
                                           VUndef),
                            !.pc = @ + 1]]
   /\ UNCHANGED <<phase, src, ast, js, prog, result, error, calls, cli>>

StepPrint ==
   /\ Running
   /\ Instr.op = "call"
   /\ Callee.t = "builtin"
   /\ LET str == IF Instr.argc = 0 THEN VUndef ELSE Args[1]
      IN stdout' = IF Callee.name = "print" THEN stdout \o ToStr(str)
                   ELSE stdout \o ToStr(BinOp("+", str, VStr(NL)))
   /\ stack' = [stack EXCEPT ![Len(stack)] =
                  [@ EXCEPT !.ost = Append(SubSeq(@, 1, Len(@) - Instr.argc - 1),
                                           VUndef),
                            !.pc = @ + 1]]
   /\ UNCHANGED <<phase, src, ast, js, prog, result, error, calls, cli>>

\* return e, return, and the end of a function body.
StepReturn ==
   /\ Running
   /\ Instr.op \in {"ret", "retu"}
   /\ LET v == IF Instr.op = "ret" THEN Top.ost[Len(Top.ost)] ELSE VUndef
          n == Len(stack)
      IN IF n = 1
         THEN \* main returns to the entry point, which returns io
              /\ stack' = <<>>
              /\ result' = v
              /\ phase' = "loaded"
              /\ calls' = calls + 1
              /\ UNCHANGED <<src, ast, js, prog, stdout, error, cli>>
         ELSE \* the call instruction of the caller is done
              /\ LET caller == stack[n - 1]
                     argc == FnOf(caller.fn).code[caller.pc].argc
                 IN stack' = [SubSeq(stack, 1, n - 1) EXCEPT ![n - 1] =
                                [@ EXCEPT
                                   !.ost = Append(SubSeq(@, 1, Len(@) - argc - 1),
                                                  v),
                                   !.pc = @ + 1]]
              /\ UNCHANGED <<phase, src, ast, js, prog, stdout, result, error,
                             calls, cli>>

\* The exceptions of the running code: an identifier bound nowhere, a call
\* of what is no function, the call stack exhausted.
StepThrow ==
   /\ Running
   /\ \/ /\ Instr.op \in {"load", "callee", "store"}
         /\ ~Lookup(stack, Len(stack), Instr.x).found
         /\ Throw("ReferenceError")
      \/ /\ Instr.op = "call"
         /\ Callee.t \notin {"fn", "builtin"}
         /\ Throw("TypeError")
      \/ /\ Instr.op = "call"
         /\ Callee.t = "fn"
         /\ Len(stack) >= MaxStack
         /\ Throw("RangeError")
      \/ /\ Instr.op = "bin"
         /\ BinOp(Instr.o, Top.ost[Len(Top.ost) - 1], Top.ost[Len(Top.ost)])
               = VUnmodelled
         /\ Throw("Unmodelled")

\* ------------------------------------------------------------------------
\* The grammar (src/src/grammar/grammar.jml.pegjs)
\*
\* A rule is an operator of the text s and a position i; it fails, or
\* matches up to a position and returns a value.  Choices are ordered and a
\* repetition takes all it can, as in a PEG.  The location withLoc adds to a
\* node is left out: the generator never reads it.
\* ------------------------------------------------------------------------

PFail == [ok |-> FALSE]
POk(pos, val) == [ok |-> TRUE, pos |-> pos, val |-> val]

\* The position a match ended at, 0 for a failure.
PosOf(r) == IF r.ok THEN r.pos ELSE 0

\* The literal w at position i: the position after it, 0 when it is not there.
Lit(s, i, w) ==
   IF i + Len(w) - 1 <= Len(s) /\ SubSeq(s, i, i + Len(w) - 1) = w
   THEN i + Len(w) ELSE 0

\* The position after the characters of set that start at i: [set]*.
SkipSet(s, i, set) ==
   IF i > Len(s) THEN i
   ELSE CHOOSE j \in i..(Len(s) + 1) :
           /\ \A k \in i..(j - 1) : Char(s, k) \in set
           /\ j <= Len(s) => Char(s, j) \notin set

WsNLChars == {" ", "\t", "\r", "\n"}
WsChars == {" ", "\t"}
LowerChars ==
   {"a","b","c","d","e","f","g","h","i","j","k","l","m","n","o","p","q","r",
    "s","t","u","v","w","x","y","z"}
UpperChars ==
   {"A","B","C","D","E","F","G","H","I","J","K","L","M","N","O","P","Q","R",
    "S","T","U","V","W","X","Y","Z"}
IdentChars == LowerChars \cup UpperChars \cup Digits \cup {"_"}

\* WsNL = [ \t\r\n]+ and Ws = [ \t]+: the position after, 0 on failure.
WsNL(s, i) ==
   IF i <= Len(s) /\ Char(s, i) \in WsNLChars THEN SkipSet(s, i + 1, WsNLChars)
   ELSE 0
Ws(s, i) ==
   IF i <= Len(s) /\ Char(s, i) \in WsChars THEN SkipSet(s, i + 1, WsChars)
   ELSE 0

\* EOF = [^.]: any one character but a dot.
EOF(s, i) == IF i <= Len(s) /\ Char(s, i) # "." THEN i + 1 ELSE 0

RECURSIVE Skip(_, _, _)
\* The position after the parts of a sequence that carry no value, from
\* position i on, 0 when one of them is not there (or i is 0).  A part is
\* WsNL, Ws, one of these or EOF made optional, or else a literal.  WsNL?
\* stands for WsNL* as well: the first match of a + takes all there is.
Skip(s, i, parts) ==
   IF i = 0 \/ parts = <<>> THEN i
   ELSE Skip(s,
             CASE Head(parts) = "WsNL" -> WsNL(s, i)
               [] Head(parts) = "WsNL?" -> SkipSet(s, i, WsNLChars)
               [] Head(parts) = "Ws" -> Ws(s, i)
               [] Head(parts) = "Ws?" -> SkipSet(s, i, WsChars)
               [] Head(parts) = "EOF?" -> IF EOF(s, i) # 0 THEN EOF(s, i) ELSE i
               [] OTHER -> Lit(s, i, Head(parts)),
             Tail(parts))

\* The rules refer to one another through Rule(name, s, i, m), the result
\* of rule name at position i of the text s, a failure when i is 0.  As the
\* generated parser does for every rule, the results of the rules of Cached
\* are kept per position: m holds them for the last Len(m) positions of s,
\* and a rule is worked out only where m does not hold it.
RECURSIVE Rule(_, _, _, _)

Cached ==
   {"Operand", "CallOrOperand", "Expression", "FunctionBlock",
    "FunctionDeclaration"}


\* parts r:Name, the rule after the parts that start at position i.
RuleAfter(name, s, i, parts, m) == Rule(name, s, Skip(s, i, parts), m)

RECURSIVE Many(_, _, _, _, _, _)
\* (parts r:Name { return r })*, its values appended to acc.
Many(name, s, i, parts, acc, m) ==
   LET r == RuleAfter(name, s, i, parts, m)
   IN IF r.ok THEN Many(name, s, r.pos, parts, Append(acc, r.val), m)
      ELSE POk(i, acc)

Start(s, i, m) ==
   LET statements == Many("TopLevelStatement", s, i, <<"WsNL?">>, <<>>, m)
   IN POk(Skip(s, statements.pos, <<"WsNL?", "EOF?">>),
          [statements |-> statements.val])

TypeParameterName(s, i, m) ==
   IF SkipSet(s, i, LowerChars) > i
   THEN POk(SkipSet(s, i, LowerChars),
            [type |-> "type-parameter",
             name |-> SubSeq(s, i, SkipSet(s, i, LowerChars) - 1)])
   ELSE PFail

Keywords == <<"fn", "let", "in", "record", "union", "if", "else", "then">>

\* Keyword = ("fn" / "let" / ... / "then") WsNL: the first alternative that
\* matches stands, then white space must follow.
Keyword(s, i, m) ==
   LET hits == { k \in 1..Len(Keywords) : Lit(s, i, Keywords[k]) # 0 }
       first == CHOOSE k \in hits : \A h \in hits : k <= h
   IN IF hits # {} /\ Skip(s, i, <<Keywords[first], "WsNL">>) # 0
      THEN POk(Skip(s, i, <<Keywords[first], "WsNL">>), Keywords[first])
      ELSE PFail

\* The value is the array of the parts, the first character and the rest.
ProperIdentifier(s, i, m) ==
   IF i <= Len(s) /\ Char(s, i) \in UpperChars
   THEN POk(SkipSet(s, i + 1, IdentChars),
            [type |-> "upper-identifier",
             value |-> <<Char(s, i),
                         [k \in 1..(SkipSet(s, i + 1, IdentChars) - i - 1)
                            |-> Char(s, i + k)]>>])
   ELSE PFail

\* Identifier = !(&Keyword) $([a-z][A-Za-z0-9_]*)
Identifier(s, i, m) ==
   IF ~Keyword(s, i, m).ok /\ i <= Len(s) /\ Char(s, i) \in LowerChars
   THEN POk(SkipSet(s, i + 1, IdentChars),
            Id(SubSeq(s, i, SkipSet(s, i + 1, IdentChars) - 1)))
   ELSE PFail

Number(s, i, m) ==
   IF SkipSet(s, i, Digits) > i
   THEN POk(SkipSet(s, i, Digits), Num(SubSeq(s, i, SkipSet(s, i, Digits) - 1)))
   ELSE PFail

\* [^\"]*: the position of the first quote from i on, or the end.
SkipToQuote(s, i) ==
   IF i > Len(s) THEN i
   ELSE CHOOSE j \in i..(Len(s) + 1) :
           /\ \A k \in i..(j - 1) : Char(s, k) # "\""
           /\ j <= Len(s) => Char(s, j) = "\""

\* String = $([\"] [^\"]* [\"]): the value keeps its quotes.
String(s, i, m) ==
   LET j == SkipToQuote(s, i + 1)
   IN IF Lit(s, i, "\"") # 0 /\ j <= Len(s) THEN POk(j + 1, Str(SubSeq(s, i, j)))
      ELSE PFail

Literal(s, i, m) ==
   LET n == Rule("Number", s, i, m) IN IF n.ok THEN n ELSE Rule("String", s, i, m)

RECURSIVE LetFns(_, _, _, _)
\* fns:(fn:FunctionDeclaration WsNL { return fn })+, as many as match
LetFns(s, i, acc, m) ==
   LET fn == Rule("FunctionDeclaration", s, i, m)
   IN IF Skip(s, PosOf(fn), <<"WsNL">>) # 0
      THEN LetFns(s, Skip(s, PosOf(fn), <<"WsNL">>), Append(acc, fn.val), m)
      ELSE POk(i, acc)

LetExpression(s, i, m) ==
   LET fns == IF Skip(s, i, <<"let", "WsNL">>) # 0
              THEN LetFns(s, Skip(s, i, <<"let", "WsNL">>), <<>>, m)
              ELSE POk(0, <<>>)
       body == IF Len(fns.val) > 0
               THEN RuleAfter("FunctionBlock", s, fns.pos, <<"in", "WsNL?">>, m)
               ELSE PFail
   IN IF body.ok THEN POk(body.pos, LetE(fns.val, body.val)) ELSE PFail

IfExpression(s, i, m) ==
   LET pred == RuleAfter("Expression", s, i, <<"if", "WsNL">>, m)
       t == RuleAfter("Expression", s, PosOf(pred), <<"WsNL", "then", "WsNL">>, m)
       f == RuleAfter("Expression", s, PosOf(t), <<"WsNL", "else", "WsNL">>, m)
   IN IF f.ok THEN POk(f.pos, IfE(pred.val, t.val, f.val)) ELSE PFail

Operand(s, i, m) ==
   LET p == Rule("ParenthesizedExpression", s, i, m)
       l == Rule("LetExpression", s, i, m)
       c == Rule("IfExpression", s, i, m)
       v == Rule("Literal", s, i, m)
   IN IF p.ok THEN p
      ELSE IF l.ok THEN l
      ELSE IF c.ok THEN c
      ELSE IF v.ok THEN v
      ELSE Rule("Application", s, i, m)

InfixOperators == <<"==", "!=", "<=", ">=", "<", ">", "+", "*", "-">>

InfixOperator(s, i, m) ==
   LET hits == { k \in 1..Len(InfixOperators) : Lit(s, i, InfixOperators[k]) # 0 }
       first == CHOOSE k \in hits : \A h \in hits : k <= h
   IN IF hits = {} THEN PFail
      ELSE POk(i + Len(InfixOperators[first]), Id(InfixOperators[first]))

CallOrOperand(s, i, m) ==
   LET a == Rule("Application", s, i, m) IN IF a.ok THEN a ELSE Rule("Operand", s, i, m)

Application(s, i, m) ==
   LET name == Rule("Identifier", s, i, m)
       operands == Many("Operand", s, PosOf(name), <<"Ws">>, <<>>, m)
   IN IF name.ok
      THEN POk(operands.pos,
               [type |-> "application", name |-> name.val,
                parameters |-> operands.val])
      ELSE PFail

ParenthesizedExpression(s, i, m) ==
   LET expr == RuleAfter("Expression", s, i, <<"(", "WsNL?">>, m)
   IN IF Skip(s, PosOf(expr), <<"WsNL?", ")">>) # 0
      THEN POk(Skip(s, PosOf(expr), <<"WsNL?", ")">>), expr.val)
      ELSE PFail

RECURSIVE Reverse(_)
Reverse(q) == IF q = <<>> THEN <<>> ELSE Append(Reverse(Tail(q)), Head(q))

RECURSIVE Reduce(_, _)
\* rhs.reduce((acc, r) => application r.i of [acc, r.r], acc)
Reduce(acc, rhs) ==
   IF rhs = <<>> THEN acc
   ELSE Reduce([type |-> "application", name |-> rhs[1].i,
                parameters |-> <<acc, rhs[1].r>>], Tail(rhs))

RECURSIVE ExpressionRhs(_, _, _, _)
\* rhs:(Ws? i:InfixOperator Ws? r:CallOrOperand { return { r: r, i: i } })*
ExpressionRhs(s, i, acc, m) ==
   LET op == RuleAfter("InfixOperator", s, i, <<"Ws?">>, m)
       r == RuleAfter("CallOrOperand", s, PosOf(op), <<"Ws?">>, m)
   IN IF r.ok THEN ExpressionRhs(s, r.pos, Append(acc, [r |-> r.val, i |-> op.val]), m)
      ELSE POk(i, acc)

Expression(s, i, m) ==
   LET expr == Rule("CallOrOperand", s, i, m)
       rhs == ExpressionRhs(s, expr.pos, <<>>, m)
   IN IF ~expr.ok THEN PFail
      ELSE IF Len(rhs.val) > 0
      THEN POk(rhs.pos, Reduce(expr.val, Reverse(rhs.val)))
      ELSE POk(rhs.pos, expr.val)

NameType(s, i, m) ==
   LET name == Rule("Identifier", s, i, m)
       type == RuleAfter("Type", s, PosOf(name), <<":">>, m)
   IN IF type.ok THEN POk(type.pos, [name |-> name.val, type |-> type.val])
      ELSE PFail

FunctionParameters(s, i, m) ==
   LET head == Rule("Identifier", s, i, m)
   IN IF head.ok THEN Many("Identifier", s, head.pos, <<"Ws">>, <<head.val>>, m)
      ELSE PFail

FunctionBlock(s, i, m) ==
   LET body == RuleAfter("Expression", s, i, <<"{", "WsNL?">>, m)
   IN IF Skip(s, PosOf(body), <<"WsNL?", "}">>) # 0
      THEN POk(Skip(s, PosOf(body), <<"WsNL?", "}">>), body.val)
      ELSE PFail

\* parameters:(Ws p:FunctionParameters { return p })? is null when it is
\* not there, and the action turns null into [].
FunctionDeclaration(s, i, m) ==
   LET name == Rule("Identifier", s, i, m)
       p == RuleAfter("FunctionParameters", s, PosOf(name), <<"Ws">>, m)
       body == RuleAfter("FunctionBlock", s,
                         IF p.ok THEN p.pos ELSE PosOf(name), <<"WsNL?">>, m)
   IN IF body.ok
      THEN POk(body.pos,
               [type |-> "function-declaration", name |-> name.val,
                parameters |-> IF p.ok THEN p.val ELSE <<>>,
                body |-> body.val])
      ELSE PFail

TypeAnnotationList(s, i, m) ==
   LET head == Rule("Type", s, i, m)
   IN IF head.ok
      THEN Many("Type", s, head.pos, <<"Ws?", "->", "Ws?">>, <<head.val>>, m)
      ELSE PFail

\* FunctionAnnotation has no action: its value is the array of its parts,
\* which has no `type` property.
FunctionAnnotation(s, i, m) ==
   LET name == Rule("Identifier", s, i, m)
       parameters == RuleAfter("TypeAnnotationList", s, PosOf(name),
                               <<"Ws?", ":", "Ws?">>, m)
   IN IF parameters.ok
      THEN POk(parameters.pos,
               [type |-> "undefined", name |-> name.val,
                parameters |-> parameters.val])
      ELSE PFail

\* Type = name:ProperIdentifier { type-name } / TypeParameterName
Type(s, i, m) ==
   LET name == Rule("ProperIdentifier", s, i, m)
   IN IF name.ok THEN POk(name.pos, [type |-> "type-name", name |-> name.val])
      ELSE Rule("TypeParameterName", s, i, m)

UnionMember(s, i, m) ==
   LET name == Rule("ProperIdentifier", s, i, m)
       parameters == Many("Type", s, PosOf(name), <<"Ws">>, <<>>, m)
   IN IF name.ok
      THEN POk(parameters.pos,
               [type |-> "union-member", parameters |-> parameters.val,
                name |-> name.val])
      ELSE PFail

\* UnionMemberList = ("|" Ws?)? head:UnionMember tail:(WsNL "|" Ws? m:UnionMember)*
UnionMemberList(s, i, m) ==
   LET head == IF Lit(s, i, "|") # 0
               THEN RuleAfter("UnionMember", s, i, <<"|", "Ws?">>, m)
               ELSE Rule("UnionMember", s, i, m)
   IN IF head.ok
      THEN Many("UnionMember", s, head.pos, <<"WsNL", "|", "Ws?">>, <<head.val>>, m)
      ELSE PFail

TypeParameterList(s, i, m) ==
   LET head == Rule("TypeParameterName", s, i, m)
   IN IF head.ok
      THEN Many("TypeParameterName", s, head.pos, <<"Ws">>, <<head.val>>, m)
      ELSE PFail

\* The action leaves the parameters out of the node.
UnionDeclaration(s, i, m) ==
   LET name == RuleAfter("ProperIdentifier", s, i, <<"union", "Ws">>, m)
       p == RuleAfter("TypeParameterList", s, PosOf(name), <<"Ws">>, m)
       members == RuleAfter("UnionMemberList", s,
                            IF p.ok THEN p.pos ELSE PosOf(name),
                            <<"WsNL", "=", "WsNL">>, m)
   IN IF members.ok
      THEN POk(members.pos,
               [type |-> "union", name |-> name.val, members |-> members.val])
      ELSE PFail

\* RecordMember = name:Identifier Ws? ":" Ws? type:Type
RecordMember(s, i, m) ==
   LET name == Rule("Identifier", s, i, m)
       type == RuleAfter("Type", s, PosOf(name), <<"Ws?", ":", "Ws?">>, m)
   IN IF type.ok THEN POk(type.pos, [name |-> name.val, type |-> type.val])
      ELSE PFail

RecordMemberList(s, i, m) ==
   LET head == Rule("RecordMember", s, i, m)
   IN IF head.ok
      THEN Many("RecordMember", s, head.pos, <<"WsNL?", ",", "WsNL">>,
                <<head.val>>, m)
      ELSE PFail

\* RecordType = "{" WsNL members:RecordMemberList WsNL "}"
RecordType(s, i, m) ==
   LET members == RuleAfter("RecordMemberList", s, i, <<"{", "WsNL">>, m)
   IN IF Skip(s, PosOf(members), <<"WsNL", "}">>) # 0
      THEN POk(Skip(s, PosOf(members), <<"WsNL", "}">>),
               [type |-> "record-type", members |-> members.val])
      ELSE PFail

\* null, the value of an optional part that is not there.
Null == [type |-> "null"]

RecordDeclaration(s, i, m) ==
   LET name == RuleAfter("ProperIdentifier", s, i, <<"record", "Ws">>, m)
       p == RuleAfter("TypeParameterList", s, PosOf(name), <<"Ws">>, m)
       record == RuleAfter("RecordType", s,
                           IF p.ok THEN p.pos ELSE PosOf(name),
                           <<"WsNL", "=", "WsNL">>, m)
   IN IF record.ok
      THEN POk(record.pos,
               [type |-> "record", members |-> record.val.members,
                name |-> name.val,
                parameters |-> IF p.ok THEN p.val ELSE Null])
      ELSE PFail

TopLevelStatement(s, i, m) ==
   LET r == Rule("RecordDeclaration", s, i, m)
       u == Rule("UnionDeclaration", s, i, m)
       a == Rule("FunctionAnnotation", s, i, m)
   IN IF r.ok THEN r
      ELSE IF u.ok THEN u
      ELSE IF a.ok THEN a
      ELSE Rule("FunctionDeclaration", s, i, m)

Rule(name, s, i, m) ==
   IF i = 0 THEN PFail ELSE
   CASE name \in Cached /\ i > Len(s) - Len(m) /\ i <= Len(s) ->
           Held(s, i, m)[name]
     [] name = "Start" -> Start(s, i, m)
     [] name = "TypeParameterName" -> TypeParameterName(s, i, m)
     [] name = "ProperIdentifier" -> ProperIdentifier(s, i, m)
     [] name = "Identifier" -> Identifier(s, i, m)
     [] name = "Number" -> Number(s, i, m)
     [] name = "String" -> String(s, i, m)
     [] name = "Literal" -> Literal(s, i, m)
     [] name = "LetExpression" -> LetExpression(s, i, m)
     [] name = "IfExpression" -> IfExpression(s, i, m)
     [] name = "Operand" -> Operand(s, i, m)
     [] name = "InfixOperator" -> InfixOperator(s, i, m)
     [] name = "CallOrOperand" -> CallOrOperand(s, i, m)
     [] name = "Application" -> Application(s, i, m)
     [] name = "ParenthesizedExpression" -> ParenthesizedExpression(s, i, m)
     [] name = "Expression" -> Expression(s, i, m)
     [] name = "NameType" -> NameType(s, i, m)
     [] name = "FunctionParameters" -> FunctionParameters(s, i, m)
     [] name = "FunctionBlock" -> FunctionBlock(s, i, m)
     [] name = "FunctionDeclaration" -> FunctionDeclaration(s, i, m)
     [] name = "TypeAnnotationList" -> TypeAnnotationList(s, i, m)
     [] name = "FunctionAnnotation" -> FunctionAnnotation(s, i, m)
     [] name = "Type" -> Type(s, i, m)
     [] name = "UnionMember" -> UnionMember(s, i, m)
     [] name = "UnionMemberList" -> UnionMemberList(s, i, m)
     [] name = "TypeParameterList" -> TypeParameterList(s, i, m)
     [] name = "UnionDeclaration" -> UnionDeclaration(s, i, m)
     [] name = "RecordMember" -> RecordMember(s, i, m)
     [] name = "RecordMemberList" -> RecordMemberList(s, i, m)
     [] name = "RecordType" -> RecordType(s, i, m)
     [] name = "RecordDeclaration" -> RecordDeclaration(s, i, m)
     [] name = "TopLevelStatement" -> TopLevelStatement(s, i, m)

\* The results of the rules of Cached at position i, m holding those of
\* the positions after i.
ResultsAt(s, i, m) ==
   [Operand |-> Rule("Operand", s, i, m),
    CallOrOperand |-> Rule("CallOrOperand", s, i, m),
    Expression |-> Rule("Expression", s, i, m),
    FunctionBlock |-> Rule("FunctionBlock", s, i, m),
    FunctionDeclaration |-> Rule("FunctionDeclaration", s, i, m)]

RECURSIVE Results(_, _, _, _)
\* m with the results at the positions lo..hi before it, the later half of
\* the positions first.
Results(s, lo, hi, m) ==
   IF lo > hi THEN m
   ELSE IF lo = hi THEN <<ResultsAt(s, lo, m)>> \o m
   ELSE CHOOSE all \in
           { Results(s, lo, (lo + hi) \div 2, later) :
               later \in {Results(s, (lo + hi) \div 2 + 1, hi, m)} } : TRUE

\* parse(input): the value of Start when the rule matched and left nothing
\* of the input unread, a syntax error otherwise (the generated parser).
ParseError == [type |-> "error"]

parse(input) ==
   CHOOSE program \in
      { IF r.ok /\ r.pos = Len(input) + 1 THEN r.val ELSE ParseError :
          r \in { Rule("Start", input, 1, m) :
                    m \in {Results(input, 1, Len(input), <<>>)} } } : TRUE

\* ------------------------------------------------------------------------
\* The pipeline: parse, generate, evaluate the text, call the entry point
\* ------------------------------------------------------------------------

\* parse(input) of src/src/parser.ts.
Parse ==
   /\ phase = "source"
   /\ \E program \in {parse(src)} :
         /\ ast' = program
         /\ IF program = ParseError
            THEN phase' = "failed" /\ error' = "ParseError"
            ELSE phase' = "parsed" /\ error' = error
   /\ UNCHANGED <<src, js, prog, stack, stdout, result, calls, cli>>

\* generate(ast) of src/src/generator.ts.
Generate ==
   /\ phase = "parsed"
   /\ \E generated \in {generate(ast)} :
         IF generated = GenerationError
         THEN phase' = "failed" /\ error' = "GenerationError" /\ js' = NoText
         ELSE phase' = "generated" /\ error' = error /\ js' = generated
   /\ UNCHANGED <<src, ast, prog, stack, stdout, result, calls, cli>>

\* eval of the generated text: the wrapper runs once, io.stdout is ''.
Evaluate ==
   /\ phase = "generated"
   /\ \E loaded \in {LoadProgram(js)} :
         IF loaded = SyntaxError
         THEN phase' = "failed" /\ error' = "SyntaxError" /\ prog' = prog
         ELSE phase' = "loaded" /\ error' = error /\ prog' = loaded.fns
   /\ UNCHANGED <<src, ast, js, stack, stdout, result, calls, cli>>

\* exports.main(): the entry point calls main() with no argument.
Invoke ==
   /\ phase = "loaded"
   /\ calls < MaxCalls
   /\ Lookup(<<>>, 0, "main").found
   /\ LET main == Lookup(<<>>, 0, "main").val
      IN /\ main.t = "fn"
         /\ stack' = <<NewFrame(FnOf(main.id), <<>>, 0)>>
   /\ phase' = "running"
   /\ UNCHANGED <<src, ast, js, prog, stdout, result, error, calls, cli>>

\* exports.main() of a text that declares no main.
InvokeThrow ==
   /\ phase = "loaded"
   /\ calls < MaxCalls
   /\ ~Lookup(<<>>, 0, "main").found
   /\ Throw("ReferenceError")

Step ==
   \/ StepPush \/ StepLoad \/ StepBin \/ StepJump \/ StepStore
   \/ StepCall \/ StepPrint \/ StepReturn \/ StepThrow

Next == Parse \/ Generate \/ Evaluate \/ Invoke \/ InvokeThrow \/ Step

\* ------------------------------------------------------------------------
\* The meaning of a source program, against which the behaviour of the
\* generated code is compared
\*
\* A call evaluates its arguments left to right and then the body of the
\* function with its parameters bound; a zero-argument application of a
\* parameter name is the parameter; an if evaluates its predicate and one
\* branch; the functions of a let are visible in its body, which gives the
\* value of the let.  Operators, truth and print are those of the host.
\* ------------------------------------------------------------------------

\* Calls a reference evaluation may nest before it is given up as diverging.
MaxFuel == 40

RefOk(v, out) == [st |-> "ok", v |-> v, out |-> out]
RefStop(st, out) == [st |-> st, v |-> VUndef, out |-> out]

\* The innermost scope of scopes that declares function x, 0 if none does.
RefScopeOf(scopes, x) ==
   LET hits == { k \in 1..Len(scopes) :
                   \E i \in 1..Len(scopes[k].fns) :
                      scopes[k].fns[i].name.value = x }
   IN IF hits = {} THEN 0 ELSE CHOOSE k \in hits : \A h \in hits : h <= k

RefDecl(scope, x) ==
   LET hits == { i \in 1..Len(scope.fns) : scope.fns[i].name.value = x }
   IN scope.fns[CHOOSE i \in hits : \A h \in hits : h <= i]

RefBind(params, args) ==
   [x \in { params[i].value : i \in 1..Len(params) } |->
      LET i == CHOOSE i \in 1..Len(params) : params[i].value = x
      IN IF i <= Len(args) THEN args[i] ELSE VUndef]

RECURSIVE RefEval(_, _, _, _, _), RefArgs(_, _, _, _, _, _)

\* The values of the expressions es from index i on, in order, after acc.
RefArgs(scopes, env, es, i, acc, fuel) ==
   IF i > Len(es) THEN acc
   ELSE LET r == RefEval(scopes, env, es[i], acc.out, fuel)
        IN IF r.st # "ok" THEN [acc EXCEPT !.st = r.st, !.out = r.out]
           ELSE RefArgs(scopes, env, es, i + 1,
                        [acc EXCEPT !.v = Append(@, r.v), !.out = r.out], fuel)

\* What is to be done for the application expr once its arguments have the
\* values as: "parameter", "stopped" (an argument gave no value), "infix",
\* "call", "diverges" (no fuel is left for the call), "print", "printLn",
\* or "error" (the name is bound to nothing).
RefKind(scopes, env, expr, as, fuel) ==
   IF Len(expr.parameters) = 0 /\ expr.name.value \in DOMAIN env
   THEN "parameter"
   ELSE IF as.st # "ok" THEN "stopped"
   ELSE IF expr.name.value \in infixFns THEN "infix"
   ELSE IF RefScopeOf(scopes, expr.name.value) # 0
   THEN IF fuel = 0 THEN "diverges" ELSE "call"
   ELSE IF expr.name.value \in {"print", "printLn"} THEN expr.name.value
   ELSE "error"

\* The value of expr and the output after it, out being the output so far.
RefEval(scopes, env, expr, out, fuel) ==
   CASE expr.type = "number" ->
           RefOk(VNum(LeadingDigits(expr.value, 1, 0)), out)
     [] expr.type = "string" ->
           RefOk(VStr(SubSeq(expr.value, 2, Len(expr.value) - 1)), out)
     [] expr.type = "if-expression" ->
           LET p == RefEval(scopes, env, expr.predicate, out, fuel)
           IN IF p.st # "ok" THEN p
              ELSE RefEval(scopes, env,
                           IF Truthy(p.v) THEN expr.true_expression
                           ELSE expr.false_expression,
                           p.out, fuel)
     [] expr.type = "let-expression" ->
           RefEval(Append(scopes, [fns |-> expr.bindings, env |-> env]), env,
                   expr.body, out, fuel)
     [] expr.type = "application" ->
           LET x == expr.name.value
               k == RefScopeOf(scopes, x)
               as == IF Len(expr.parameters) = 0 /\ x \in DOMAIN env
                     THEN [st |-> "ok", v |-> <<>>, out |-> out]
                     ELSE RefArgs(scopes, env, expr.parameters, 1,
                                  [st |-> "ok", v |-> <<>>, out |-> out], fuel)
               arg(i) == IF i <= Len(as.v) THEN as.v[i] ELSE VUndef
               kind == RefKind(scopes, env, expr, as, fuel)
           IN CASE kind = "parameter" -> RefOk(env[x], out)
                [] kind = "stopped" -> RefStop(as.st, as.out)
                [] kind = "infix" -> RefOk(BinOp(x, arg(1), arg(2)), as.out)
                [] kind = "diverges" -> RefStop("diverges", as.out)
                [] kind = "call" ->
                      RefEval(SubSeq(scopes, 1, k),
                              RefBind(RefDecl(scopes[k], x).parameters, as.v)
                                 @@ scopes[k].env,
                              RefDecl(scopes[k], x).body, as.out, fuel - 1)
                [] kind = "print" -> RefOk(VUndef, as.out \o ToStr(arg(1)))
                [] kind = "printLn" ->
                      RefOk(VUndef, as.out \o ToStr(arg(1)) \o NL)
                [] kind = "error" -> RefStop("error", as.out)

\* The call main() on program: the value main returns and what was printed.
RefRun(program) ==
   LET fns == SelectSeq(program.statements,
                        LAMBDA n : n.type = "function-declaration")
       top == <<[fns |-> fns, env |-> <<>>]>>
   IN IF RefScopeOf(top, "main") = 0 THEN RefStop("error", "")
      ELSE RefEval(top, RefBind(RefDecl(top[1], "main").parameters, <<>>),
                   RefDecl(top[1], "main").body, "", MaxFuel)

\* ------------------------------------------------------------------------
\* The programs the pipeline is run on
\* ------------------------------------------------------------------------

\* Inputs of the recursive functions range over 0..MaxN.
MaxN == 4

\* A recursion deeper than the call stack allows frames.
DeepN == MaxStack + 2

N(n) == ToString(n)

\* The programs of test/hello_world_test.ts.
HelloWorldText == "main args { print \"Hello World\" }"

MathText == "main args { print (1 + 1) }"

CombinationText == "\nfoo { 1 }\nbar { 2 }\nmain args { print (bar + foo) }\n"

LetTestText ==
   "\nmain args {\n   let\n      foo { 1 }\n      bar { 2 }\n   in {\n"
   \o "      print (bar + foo)\n   }\n}\n"

IfTestText == "\nmain args {\n   print if 1 == 1 then\n      2\n   else\n      3\n}\n"

FactorialText(n) ==
   "\nfib n {\n   if n == 0 then\n      1\n   else\n      fib (n - 1) * n\n}\n\n"
   \o "main args {\n   print (fib " \o N(n) \o ")\n}\n"

TailFibText(n) ==
   "\nfibHelp n a b {\n   if n == 0 then\n      a\n   else\n"
   \o "      if n == 1 then\n         b\n      else\n"
   \o "         fibHelp (n - 1) (b) (a + b)\n}\n\n"
   \o "fib n {\n   fibHelp (n) (0) (1)\n}\n\nmain args { print (fib "
   \o N(n) \o ") }\n"

\* Self tail calls in the false branch, in the true branch, with an
\* accumulator, with parameters exchanged, with a call as argument; main
\* returns the value or prints it.
CountdownText(n) ==
   "loop n { if n == 0 then 0 else loop (n - 1) }\nmain { print (loop "
   \o N(n) \o ") }"

CountUpText(n) ==
   "up n m { if n < m then up (n + 1) (m) else n }\nmain { up (0) (" \o N(n)
   \o ") }"

SumToText(n) ==
   "sum n acc { if n == 0 then acc else sum (n - 1) (acc + n) }\n"
   \o "main { sum (" \o N(n) \o ") (0) }"

SwapText(n) ==
   "swap n a b { if n == 0 then a - b else swap (n - 1) (b) (a) }\n"
   \o "main { swap (" \o N(n) \o ") (5) (2) }"

DecLoopText(n) ==
   "dec n { n - 1 }\nloop n { if n == 0 then \"done\" else loop (dec n) }\n"
   \o "main { print (loop " \o N(n) \o ") }"

\* A let as the base case of a self tail call, and a self tail call of a
\* function bound by a let.
LetBaseText(n) ==
   "f n { if n == 0 then let g { 1 } in { g } else f (n - 1) }\n"
   \o "main { print (f " \o N(n) \o ") }"

LetLoopText(n) ==
   "main { print (let f x { if x == 0 then 1 else f (x - 1) } in { f "
   \o N(n) \o " }) }"

TailRecursiveTexts ==
   { TailFibText(n) : n \in 0..MaxN } \cup { TailFibText(10) }
   \cup { LetBaseText(n) : n \in 0..1 }
   \cup { LetLoopText(n) : n \in {0, DeepN} }
   \cup { CountdownText(n) : n \in {0, 1, DeepN} }
   \cup { CountUpText(n) : n \in 0..MaxN }
   \cup { SumToText(n) : n \in 0..MaxN }
   \cup { SwapText(n) : n \in 0..MaxN }
   \cup { DecLoopText(n) : n \in {0, 1, DeepN} }

FactorialTexts == { FactorialText(n) : n \in (0..MaxN) \cup {5} }

\* A let as the body of main, and references to let-bound names from
\* outside the let.
LetMainText == "main { let f { 1 } in { f } }"

LetLeakArgText == "k u v { v }\nmain { print (k (let f { 1 } in { f }) (f)) }"

LetLeakFnText == "g { f }\nmain { print (let f { 1 } in { g }) }"

LetShadowText == "f { 2 }\ng { f }\nmain { print ((let f { 1 } in { f }) + g) }"

LetTexts ==
   {LetTestText, LetMainText, LetLeakArgText, LetLeakFnText, LetShadowText}

\* An if as the body of main, with values and with effects in the branches.
IfMainText(a, b) ==
   "main { if " \o N(a) \o " == " \o N(b) \o " then 2 else 3 }"

IfEffectText(a, b) ==
   "main { if " \o N(a) \o " == " \o N(b)
   \o " then print \"T\" else print \"F\" }"

IfLetText(a, b) ==
   "main { if " \o N(a) \o " == " \o N(b)
   \o " then let f { 2 } in { f } else 3 }"

IfTexts ==
   {IfTestText} \cup { IfMainText(a, b) : a, b \in 1..2 }
   \cup { IfLetText(a, b) : a, b \in 1..2 }
   \cup { IfEffectText(a, b) : a, b \in 1..2 }

\* Three operands with effects in one infix chain.
ChainText(a, b, c) ==
   "k u v { v }\np x { k (print x) (x) }\nmain { print ((p " \o N(a)
   \o ") + (p " \o N(b) \o ") + (p " \o N(c) \o ")) }"

PairText(a, b) ==
   "k u v { v }\np x { k (print x) (x) }\nmain { print ((p " \o N(a)
   \o ") + (p " \o N(b) \o ")) }"

InfixTexts == {MathText, CombinationText, ChainText(1, 2, 3), PairText(1, 2)}

\* A parameter named as a function of the program, or of a let.
ParamShadowTopText == "n { 7 }\nf n { n }\nmain { print (f 3) }"

ParamShadowLetText == "f n { print (let n { 5 } in { n }) }\nmain { f 3 }"

ParamTexts == {ParamShadowTopText, ParamShadowLetText}

\* Programs that end in an exception of the host.
NotAFunctionText == "f n { n 1 }\nmain { f 3 }"

RunawayText == "f n { 1 + f n }\nmain { f 1 }"

StringCompareText == "main { print (\"a\" < \"b\") }"

NoMainText == "foo { 1 }"

FailingTexts ==
   {NotAFunctionText, RunawayText, StringCompareText, NoMainText}

\* Records, unions and annotations before, between and after the functions.
DeclFirstText ==
   "record Baz = { foo : Int }\nunion Foo a b = Bar\nmain : Int\n"
   \o "main { print 1 }"

DeclBetweenText ==
   "g { 2 }\nrecord Baz a = { foo : Int, bar : a }\nf : Int\nf { 1 }\n"
   \o "union Foo =\n   | Bar\n   | Baz a Int\nmain { print (f - g) }"

DeclOnlyText == "record Baz = { foo : Int }\nunion Foo = Bar\nmain : Int"

DeclarationTexts == {DeclFirstText, DeclBetweenText, DeclOnlyText}

\* The output of print and of printLn, of one and of several calls, of a
\* text, of a number and of no argument.
PrintLnText == "main {\n  printLn \"Hello, World!\"\n}"

PrintBothText == "k u v { v }\nmain { k (printLn 1) (print \"a\") }"

PrintNothingText == "k u v { v }\nmain { k (print) (printLn) }"

PrintTexts == {PrintLnText, PrintBothText, PrintNothingText}

\* Applications with operands in and out of parentheses.
BareOperandsText == "main { f a b }"

ParenOperandText == "main { f (g a) b }"

BareCallText ==
   "x { 5 }\ny { 2 }\nf a b { a - b }\nmain { print (f x y) }"

OperandTexts == {BareOperandsText, ParenOperandText, BareCallText}

\* A self tail call whose second argument is the first parameter.
OldValueText(n, m) ==
   "f a b { if a == 0 then b else f (a - 1) (a) }\nmain { print (f ("
   \o N(n) \o ") (" \o N(m) \o ")) }"

OldValueTexts == { OldValueText(n, MaxN + 5) : n \in 0..MaxN }

\* Infix chains of numbers: the operands 7, 2, 3, ... with the operators
\* ops between them.
Operands == <<"7", "2", "3", "4">>

RECURSIVE ChainSource(_)
ChainSource(ops) ==
   IF ops = <<>> THEN Operands[1]
   ELSE ChainSource(SubSeq(ops, 1, Len(ops) - 1)) \o " " \o ops[Len(ops)]
        \o " " \o Operands[Len(ops) + 1]

NumberChainText(ops) == "main { " \o ChainSource(ops) \o " }"

NumberChains == UNION { [1..k -> {"-", "*"}] : k \in 1..2 } \cup {<<"-", "*", "+">>}

NumberChainTexts == { NumberChainText(ops) : ops \in NumberChains }

\* An infix Application as the first and as the second argument of another,
\* and an if expression as an argument.
LeftGroupedText(o, p) == "main { (7 " \o o \o " 2) " \o p \o " 3 }"

RightGroupedText(o, p) == "main { 7 " \o o \o " (2 " \o p \o " 3) }"

IfOperandText == "main { 7 - (if 1 == 1 then 2 else 3) }"

GroupedTexts ==
   { LeftGroupedText(o, p) : o, p \in {"-", "*"} }
   \cup { RightGroupedText(o, p) : o, p \in {"-", "*"} }
   \cup {IfOperandText}

\* A function of two parameters applied to two numbers, under a name that
\* every object of the host has a property of, and under another name.
NamedCallText(name) ==
   name \o " a b { a }\nmain { " \o name \o " (1) (2) }"

CallNames == {"toString", "constructor", "valueOf", "plus"}

NamedCallTexts == { NamedCallText(name) : name \in CallNames }

\* A keyword before a brace, before a parenthesis, and at the end of the
\* text.
KeywordTexts ==
   {"main { if}", "main { f (let) }", "then{ 1 }\nmain { then}",
    "main { union(1) }", "main { 1 }\nelse", "main { if 1 == 1 then 2 else 3 }"}

\* Malformed input: a well-formed text cut short at any place, or followed
\* by one more character.
\* A self-call in the else-branch with one argument more than the function
\* has parameters.
ArityText(n) ==
   "count n { if n == 0 then 0 else count (n - 1) (n) }\nmain { print (count "
   \o N(n) \o ") }"

ArityTexts == { ArityText(n) : n \in 0..2 }

\* A self-call with the name and the number of arguments of the function as
\* the body of a let in the else-branch.
LetTailText(n) ==
   "f n { if n == 0 then 0 else let g { 1 } in { f (n - 1) } }\n"
   \o "main { print (f " \o N(n) \o ") }"

LetTailTexts == { LetTailText(n) : n \in 0..1 }

\* A parameter of the function around a let read in a function bound by the
\* let: the let as the body of the function, and as an argument in it.
LetParamText == "f n { let g { n } in { g } }\nmain { print (f 3) }"

LetParamPrintText == "f n { print (let g { n } in { g }) }\nmain { f 3 }"

LetParamTexts == {LetParamText, LetParamPrintText}

PlainText == "main { 1 }"

UnterminatedStringText == "main { print \"a }"

Prefixes(s) == { SubSeq(s, 1, n) : n \in 0..Len(s) }

TrailingChars == {"}", "{", ")", "x", "1", "\"", ".", " ", "\n"}

Trailed(s) == { s \o c : c \in TrailingChars }

MalformedTexts ==
   Prefixes(HelloWorldText) \cup Prefixes(PlainText)
   \cup Trailed(HelloWorldText) \cup Trailed(PlainText)
   \cup Trailed(CombinationText) \cup {UnterminatedStringText}

Texts ==
   {HelloWorldText} \cup InfixTexts \cup LetTexts \cup IfTexts
   \cup TailRecursiveTexts \cup FactorialTexts \cup ParamTexts
   \cup FailingTexts \cup DeclarationTexts \cup PrintTexts
   \cup OperandTexts \cup OldValueTexts \cup NumberChainTexts
   \cup GroupedTexts \cup NamedCallTexts \cup KeywordTexts
   \cup ArityTexts \cup LetTailTexts \cup LetParamTexts
   \cup MalformedTexts

\* Programs no text parses to: a node of a type the generator does not know
\* put in place of one expression of a parsed program, at every place.
Lambda == [type |-> "lambda"]

KnownTypes == {"application", "let-expression", "if-expression", "number", "string"}

\* The expressions directly under expr that generation descends into.
Children(expr) ==
   IF expr.type = "application" THEN expr.parameters
   ELSE IF expr.type = "if-expression"
   THEN <<expr.predicate, expr.true_expression, expr.false_expression>>
   ELSE IF expr.type = "let-expression"
   THEN [i \in 1..Len(expr.bindings) |-> expr.bindings[i].body]
        \o <<expr.body>>
   ELSE <<>>

WithChildren(expr, cs) ==
   IF expr.type = "application" THEN [expr EXCEPT !.parameters = cs]
   ELSE IF expr.type = "if-expression"
   THEN [expr EXCEPT !.predicate = cs[1], !.true_expression = cs[2],
                     !.false_expression = cs[3]]
   ELSE IF expr.type = "let-expression"
   THEN [expr EXCEPT
           !.bindings = [i \in 1..Len(expr.bindings) |->
                           [expr.bindings[i] EXCEPT !.body = cs[i]]],
           !.body = cs[Len(cs)]]
   ELSE expr

RECURSIVE Size(_), SizeAll(_)
Size(expr) == 1 + SizeAll(Children(expr))
SizeAll(es) == IF es = <<>> THEN 0 ELSE Size(Head(es)) + SizeAll(Tail(es))

RECURSIVE PoisonAt(_, _), PoisonIn(_, _)
\* expr with its n-th node, counted from the root in preorder, replaced.
PoisonAt(expr, n) ==
   IF n = 1 THEN Lambda
   ELSE WithChildren(expr, PoisonIn(Children(expr), n - 1))
PoisonIn(es, n) ==
   IF es = <<>> THEN <<>>
   ELSE IF n <= Size(Head(es)) THEN <<PoisonAt(Head(es), n)>> \o Tail(es)
   ELSE <<Head(es)>> \o PoisonIn(Tail(es), n - Size(Head(es)))

Poisoned(program) ==
   UNION { { [program EXCEPT !.statements[k].body = PoisonAt(@, n)] :
               n \in 1..Size(program.statements[k].body) } :
           k \in 1..Len(program.statements) }

PoisonedPrograms ==
   UNION { Poisoned(parse(text)) :
             text \in {TailFibText(2), LetTestText, IfTestText, LetShadowText,
                       IfMainText(1, 1)} }

\* ------------------------------------------------------------------------
\* The specification: a text is given to parse, or a Program to generate
\* ------------------------------------------------------------------------

Init ==
   /\ \/ phase = "source" /\ src \in Texts /\ ast = NoAst
      \/ phase = "parsed" /\ src = "" /\ ast \in PoisonedPrograms
   /\ js = NoText
   /\ prog = {}
   /\ stack = <<>>
   /\ stdout = ""
   /\ result = NoResult
   /\ error = "none"
   /\ calls = 0
   /\ cli = NoCli

Spec == Init /\ [][Next]_vars

\* The running code is never left halfway: an enabled step is taken.
FairSpec == Spec /\ WF_vars(Step)

\* ------------------------------------------------------------------------
\* The command line: main and processJoemlCode of src/src/cli.ts, and main
\* of src/unnamed/part_001 with compile of src/src/generator.ts
\* ------------------------------------------------------------------------

\* The longest command line, and what its arguments are.
MaxArgs == 3

Arguments ==
   {"-e", "--eval", "-r", "-h", "--help", "hello.jml", "empty.jml",
    "missing.jml", "", PlainText}

CommandLines == UNION { [1..n -> Arguments] : n \in 0..MaxArgs }

\* The files fs.readFileSync returns the text of; it throws for any other
\* path.
Files == [path \in {"hello.jml", "empty.jml"} |->
            IF path = "hello.jml" THEN PrintLnText ELSE ""]

\* The usage text, and error.message of a caught exception: a text of the
\* choice of what threw it.
USAGE == "<usage>"

Message == "<error.message>"

\* An exception that nothing catches.
Uncaught == <<THROWN>>

\* beautify.js(jsCode, {indent_size: 2, space_in_empty_paren: true}) when it
\* returns: of the layout it makes, the space in empty parentheses.
beautify(jsCode) ==
   Flatten([i \in 1..Len(jsCode) |->
              IF i > 1 /\ jsCode[i] = ")" /\ jsCode[i - 1] = "("
              THEN <<" ", ")">>
              ELSE <<jsCode[i]>>])

\* The exception of parse.
SyntaxErrorThrown == <<THROWN, "SyntaxError">>

\* parse(code) and then generate of what it returned, the text or the
\* exception that ended the two.
Translate(code) ==
   CHOOSE jsCode \in
      { IF parsed = ParseError THEN SyntaxErrorThrown ELSE generate(parsed) :
          parsed \in {parse(code)} } : TRUE

\* processJoemlCode(code, options) of cli.ts, fails telling whether
\* beautify.js throws: parse, generate and beautify in one try, whose catch
\* returns the message.
processJoemlCode(code, options, fails) ==
   CHOOSE text \in
      { IF jsCode = SyntaxErrorThrown \/ jsCode = GenerationError
        THEN <<"Error: ", Message>>
        ELSE IF ~options.beautify THEN jsCode
        ELSE IF fails THEN <<"Error: ", Message>>
        ELSE beautify(jsCode) :
          jsCode \in {Translate(code)} } : TRUE

\* compile(code, options) of generator.ts: parse and generate outside the
\* try, beautify.js in it, whose catch returns the message and the code.
compile(code, options, fails) ==
   CHOOSE text \in
      { IF jsCode = SyntaxErrorThrown \/ jsCode = GenerationError THEN Uncaught
        ELSE IF fails THEN <<"Error: ", Message, NL, NL>> \o jsCode
        ELSE beautify(jsCode) :
          jsCode \in {Translate(code)} } : TRUE

\* What the command line leaves alone.
pipeline == <<phase, src, ast, js, prog, stack, stdout, result, error, calls>>

\* arg.startsWith('-')
startsWith(arg) == arg # "" /\ Char(arg, 1) = "-"

\* The argument the loop of main is at.
arg == cli.args[cli.i]

InLoop == cli.pc = "loop" /\ cli.i <= Len(cli.args)

Exit(status, line) ==
   cli' = [cli EXCEPT !.errors = Append(@, line), !.status = status,
                      !.pc = "exited"]

\* No argument, or --help or -h among the arguments: the usage text and
\* process.exit(0).
CliUsage ==
   /\ cli.pc = "main"
   /\ Len(cli.args) = 0 \/ "--help" \in Range(cli.args)
         \/ "-h" \in Range(cli.args)
   /\ cli' = [cli EXCEPT !.log = Append(@, <<USAGE>>), !.status = 0,
                         !.pc = "exited"]
   /\ UNCHANGED pipeline

\* for (let i = 0; ...
CliArguments ==
   /\ cli.pc = "main"
   /\ Len(cli.args) # 0 /\ "--help" \notin Range(cli.args)
         /\ "-h" \notin Range(cli.args)
   /\ cli' = [cli EXCEPT !.pc = "loop", !.i = 1]
   /\ UNCHANGED pipeline

\* -e or --eval that passes over a missing code.
CliEvalLenient ==
   /\ InLoop
   /\ arg \in {"-e", "--eval"}
   /\ IF cli.i + 1 <= Len(cli.args)
      THEN cli' = [cli EXCEPT !.code = cli.args[cli.i + 1], !.i = @ + 2]
      ELSE cli' = [cli EXCEPT !.i = @ + 1]
   /\ UNCHANGED pipeline

\* -e or --eval: the next argument is the code and is passed over; with no
\* next argument, process.exit(1).
CliEval ==
   /\ InLoop
   /\ arg \in {"-e", "--eval"}
   /\ IF cli.i + 1 <= Len(cli.args)
      THEN cli' = [cli EXCEPT !.code = cli.args[cli.i + 1], !.i = @ + 2]
      ELSE Exit(1, "Error: No code provided after -e/--eval option")
   /\ UNCHANGED pipeline

\* -r or --raw, of cli.ts only.
CliRaw ==
   /\ InLoop
   /\ cli.file = "cli.ts"
   /\ arg \in {"-r", "--raw"}
   /\ cli' = [cli EXCEPT !.options.beautify = FALSE, !.i = @ + 1]
   /\ UNCHANGED pipeline

\* No option and no code yet: the argument is the path of a file to read;
\* when it cannot be read, process.exit(1).
CliFile ==
   /\ InLoop
   /\ arg \notin {"-e", "--eval"}
   /\ ~(cli.file = "cli.ts" /\ arg \in {"-r", "--raw"})
   /\ ~startsWith(arg) /\ cli.code = ""
   /\ IF arg \in DOMAIN Files
      THEN cli' = [cli EXCEPT !.code = Files[arg], !.i = @ + 1]
      ELSE Exit(1, "Error: Could not read file")
   /\ UNCHANGED pipeline

\* Any other argument is passed over.
CliSkip ==
   /\ InLoop
   /\ arg \notin {"-e", "--eval"}
   /\ ~(cli.file = "cli.ts" /\ arg \in {"-r", "--raw"})
   /\ startsWith(arg) \/ cli.code # ""
   /\ cli' = [cli EXCEPT !.i = @ + 1]
   /\ UNCHANGED pipeline

\* if (code === '') after the loop: process.exit(1).
CliNoCode ==
   /\ cli.pc = "loop" /\ cli.i > Len(cli.args)
   /\ cli.code = ""
   /\ Exit(1, "Error: No joeml code provided. Use a file path or -e option.")
   /\ UNCHANGED pipeline

\* The code is processed and the result printed: processJoemlCode in
\* cli.ts, and compile in part_001, where the exception of parse or of
\* generate ends the process with status 1.
CliProcess ==
   /\ cli.pc = "loop" /\ cli.i > Len(cli.args)
   /\ cli.code # ""
   /\ \E fails \in BOOLEAN :
         \E jsCode \in {IF cli.file = "cli.ts"
                        THEN processJoemlCode(cli.code, cli.options, fails)
                        ELSE compile(cli.code, cli.options, fails)} :
            IF jsCode = Uncaught
            THEN Exit(1, "Uncaught Error")
            ELSE cli' = [cli EXCEPT !.log = Append(@, jsCode), !.status = 0,
                                    !.pc = "exited", !.fails = fails]
   /\ UNCHANGED pipeline

CliInit ==
   /\ phase = "idle" /\ src = "" /\ ast = NoAst /\ js = NoText /\ prog = {}
   /\ stack = <<>> /\ stdout = "" /\ result = NoResult /\ error = "none"
   /\ calls = 0
   /\ \E file \in {"cli.ts", "part_001"}, args \in CommandLines :
         cli = [pc |-> "main", file |-> file, args |-> args, i |-> 0,
                code |-> "", options |-> [beautify |-> file = "cli.ts"],
                log |-> <<>>, errors |-> <<>>, status |-> -1,
                fails |-> FALSE]

CliNext ==
   CliUsage \/ CliArguments \/ CliEval \/ CliRaw \/ CliFile \/ CliSkip
   \/ CliNoCode \/ CliProcess

CliSpec == CliInit /\ [][CliNext]_vars

\* ------------------------------------------------------------------------
\* The functions of a program and the calls between them
\* ------------------------------------------------------------------------

Functions(program) ==
   SelectSeq(program.statements, LAMBDA n : n.type = "function-declaration")

IsProgram(a) == a # NoAst /\ a # ParseError

RECURSIVE DeclaredIn(_)
\* The functions bound by the lets of expr, at any depth.
DeclaredIn(expr) ==
   LET below == UNION { DeclaredIn(Children(expr)[i]) :
                          i \in 1..Len(Children(expr)) }
   IN IF expr.type = "let-expression" THEN Range(expr.bindings) \cup below
      ELSE below

\* The functions of a program: those of the top level and those of lets.
AllFunctions(program) ==
   UNION { {f} \cup DeclaredIn(f.body) : f \in Range(Functions(program)) }

FnNames(program) == { f.name.value : f \in AllFunctions(program) }

RECURSIVE Applications(_, _, _)
\* The applications of the name x in expr, each known by its path (the
\* indices into Children from expr down).
Applications(x, expr, path) ==
   (IF expr.type = "application" /\ expr.name.value = x THEN {path} ELSE {})
   \cup UNION { Applications(x, Children(expr)[i], Append(path, i)) :
                  i \in 1..Len(Children(expr)) }

RECURSIVE IfTailCalls(_, _, _, _)
\* The applications of x to n arguments that expr is, or that a branch of
\* the if that expr is is, and so on.
IfTailCalls(x, n, expr, path) ==
   IF expr.type = "application" /\ expr.name.value = x
   THEN IF Len(expr.parameters) = n THEN {path} ELSE {}
   ELSE IF expr.type = "if-expression"
   THEN IfTailCalls(x, n, expr.true_expression, Append(path, 2))
        \cup IfTailCalls(x, n, expr.false_expression, Append(path, 3))
   ELSE {}

\* The names of the functions of program that a function named x applies.
CallsOf(program, x) ==
   { y \in FnNames(program) :
       \E f \in AllFunctions(program) :
          f.name.value = x /\ Applications(y, f.body, <<>>) # {} }

RECURSIVE ReachedFrom(_, _, _)
\* names, and what is applied in at most k steps from them.
ReachedFrom(program, names, k) ==
   IF k = 0 THEN names
   ELSE ReachedFrom(program,
                    names \cup UNION { CallsOf(program, y) : y \in names },
                    k - 1)

\* x is applied, directly or through other functions, when x is applied.
Recursive(program, x) ==
   x \in ReachedFrom(program, CallsOf(program, x),
                     Cardinality(FnNames(program)))

\* x is applied through another function when x is applied.
MutuallyRecursive(program, x) ==
   x \in ReachedFrom(program, CallsOf(program, x) \ {x},
                     Cardinality(FnNames(program)))

\* The functions whose only self-calls are tail calls reached through
\* if-branches, with the name and the number of arguments of the function:
\* one function of that name, no parameter of that name, and no way back to
\* it through other functions.
LoopFunctions(program) ==
   { f \in AllFunctions(program) :
       /\ Applications(f.name.value, f.body, <<>>) # {}
       /\ Applications(f.name.value, f.body, <<>>)
             = IfTailCalls(f.name.value, Len(f.parameters), f.body, <<>>)
       /\ \A g \in AllFunctions(program) : g.name.value = f.name.value => g = f
       /\ \A i \in 1..Len(f.parameters) : f.parameters[i].value # f.name.value
       /\ ~MutuallyRecursive(program, f.name.value) }

\* The frames on the call stack that are activations of a function named x.
FramesOf(x) ==
   { k \in 1..Len(stack) :
       FnOf(stack[k].fn).kind = "decl" /\ FnOf(stack[k].fn).name = x }

MainBody(program) ==
   RefDecl([fns |-> Functions(program), env |-> <<>>], "main").body

\* The first call of the entry point has returned.
Returned == phase = "loaded" /\ calls = 1

\* ------------------------------------------------------------------------
\* Properties
\* ------------------------------------------------------------------------

\* C1: a function whose only self-calls are tail calls reached through
\* if-branches has at most one frame on the call stack at any time of the
\* run, and the call stack is exhausted only by a program with a recursive
\* function that is not of this kind.
C1_LoopKeepsOneFrame ==
   /\ phase = "running" =>
         \A f \in LoopFunctions(ast) : Cardinality(FramesOf(f.name.value)) <= 1
   /\ error = "RangeError" =>
         \E f \in AllFunctions(ast) \ LoopFunctions(ast) :
            Recursive(ast, f.name.value)

\* A recursion deeper than the call stack has frames has completed.
C1_Witness ==
   /\ src = CountdownText(DeepN)
   /\ DeepN > MaxStack
   /\ Returned
   /\ LoopFunctions(ast) # {}
   /\ stdout = "0"

\* C2: a program with a tail-recursive function whose evaluation by
\* ordinary recursion gives a value, once started, returns from the first
\* call of the entry point with that value and that output.
C2_LoopSameAsRecursion ==
   (phase = "running" /\ calls = 0 /\ LoopFunctions(ast) # {}
      /\ RefRun(ast).st = "ok")
   ~> (Returned /\ result = RefRun(ast).v /\ stdout = RefRun(ast).out)

\* C3: a main whose body is a let expression returns the value of the body
\* of the let.
C3_LetBodyIsResult ==
   (phase = "loaded" /\ calls >= 1 /\ MainBody(ast).type = "let-expression"
      /\ RefRun(ast).st = "ok")
   => result = RefRun(ast).v

\* The function with identifier id lies in the text of function p.
RECURSIVE Inside(_, _)
Inside(id, p) == id # 0 /\ (id = p \/ Inside(FnOf(id).parent, p))

\* The function with identifier id is bound by a let: it is declared in the
\* function expression written for a let.
LetBound(id) ==
   /\ FnOf(id).kind = "decl"
   /\ FnOf(id).parent # 0
   /\ FnOf(FnOf(id).parent).kind = "expr"

\* C4: an identifier read by the running code resolves to a function bound
\* by a let only at a position inside that let; a program that refers to a
\* let-bound name from outside the let (and to nothing else of that name)
\* ends in a ReferenceError without a call of main returning, and where a
\* top-level function has the name, the reference outside is to it.
C4_LetScope ==
   /\ (/\ Running
       /\ Instr.op \in {"load", "callee"}
       /\ Lookup(stack, Len(stack), Instr.x).found
       /\ Lookup(stack, Len(stack), Instr.x).val.t = "fn"
       /\ LetBound(Lookup(stack, Len(stack), Instr.x).val.id))
      => Inside(Top.fn, FnOf(Lookup(stack, Len(stack), Instr.x).val.id).parent)
   /\ src \in {LetLeakArgText, LetLeakFnText} =>
         /\ calls = 0
         /\ phase = "failed" => error = "ReferenceError"
   /\ (src = LetShadowText /\ Returned) => stdout = "3"
   /\ (src = LetTestText /\ Returned) => stdout = "3"

\* The let-bound f gave 1 in the body of its let and the top-level f gave 2
\* outside of it.
C4_Witness == src = LetShadowText /\ Returned /\ stdout = "3"

\* C5: a main whose body is an if expression returns the value of the
\* branch the predicate selects, with the output of the predicate and of
\* that branch only.
C5_IfBranchIsResult ==
   (Returned /\ MainBody(ast).type = "if-expression" /\ RefRun(ast).st = "ok")
   => (result = RefRun(ast).v /\ stdout = RefRun(ast).out)

\* C6: the operands of an infix chain are evaluated in source order: each
\* operand printing its value, then the sum printed.
C6_OperandsInSourceOrder ==
   /\ (src = PairText(1, 2) /\ Returned) => stdout = "123"
   /\ (src = ChainText(1, 2, 3) /\ Returned) => stdout = "1236"

\* C7: a zero-argument application of a parameter name has the value of the
\* argument, also where a function of that name is declared at top level or
\* by a let.
C7_ParameterRead == (src \in ParamTexts /\ Returned) => stdout = "3"

\* The position the top-level statements and the whitespace after them
\* reach from the start of input.
StatementsEnd(input) ==
   CHOOSE end \in
      { Skip(input,
             Many("TopLevelStatement", input, 1, <<"WsNL?">>, <<>>, m).pos,
             <<"WsNL?">>) :
          m \in {Results(input, 1, Len(input), <<>>)} } : TRUE

\* C8: parse returns a Program only for a text that is top-level statements
\* and whitespace from its first to its last character.
C8_WholeInputIsStatements ==
   (phase = "parsed" /\ src \in Texts) => StatementsEnd(src) = Len(src) + 1

RECURSIVE Factorial(_)
Factorial(n) == IF n = 0 THEN 1 ELSE n * Factorial(n - 1)

RECURSIVE UnknownIn(_)
\* expr or an expression below it is of a type the generator does not know.
UnknownIn(expr) ==
   \/ expr.type \notin KnownTypes
   \/ \E i \in 1..Len(Children(expr)) : UnknownIn(Children(expr)[i])

HasUnknown(program) ==
   \E i \in 1..Len(Functions(program)) : UnknownIn(Functions(program)[i].body)

\* C10: for a Program with an expression of unknown type in a top-level
\* function, generate ends in the internal error and no text is returned;
\* the internal error comes of such a Program only.
C10_UnknownNodeFailsWhole ==
   /\ (IsProgram(ast) /\ HasUnknown(ast)) =>
         /\ js = NoText
         /\ phase = "parsed" \/ (phase = "failed" /\ error = "GenerationError")
   /\ error = "GenerationError" => (IsProgram(ast) /\ HasUnknown(ast))

\* generate has failed on the program of the tail recursion test with the
\* unknown node as an argument of the self tail call.
C10_Witness ==
   /\ phase = "failed"
   /\ error = "GenerationError"
   /\ js = NoText
   /\ ast = [parse(TailFibText(2)) EXCEPT
               !.statements[1].body.false_expression.false_expression
                  .parameters[2] = Lambda]

\* ------------------------------------------------------------------------
\* C11: one definition for each function declaration
\* ------------------------------------------------------------------------

\* The number of blocks of text that are open at its i-th token, a brace
\* counted with what is around its block.
Depth(text, i) ==
   Cardinality({ j \in 1..(i - 1) : text[j] = "{" })
   - Cardinality({ j \in 1..i : text[j] = "}" })

\* The tokens of text that are in no block, the line breaks left out.
TopLevel(text) ==
   LET at == SelectSeq([i \in 1..Len(text) |-> i],
                       LAMBDA i : text[i] # NL /\ Depth(text, i) = 0)
   IN [k \in 1..Len(at) |-> text[at[k]]]

\* The head and the emptied block of a definition for each function
\* declaration of program, in the order of the declarations, in the fixed
\* text of the wrapper.
Definitions(program) ==
   <<PROLOGUE>>
   \o Flatten([k \in 1..Len(Functions(program)) |->
                 <<"function", Functions(program)[k].name.value, "(">>
                 \o Join([i \in 1..Len(Functions(program)[k].parameters) |->
                            <<Functions(program)[k].parameters[i].value>>],
                         <<",">>)
                 \o <<")", "{", "}">>])
   \o <<";", EPILOGUE>>

\* C11: outside the blocks of its definitions the generated text is the
\* wrapper around one definition for each function declaration of the
\* Program, in the order of the declarations, and nothing for a statement
\* of another type; generate returns a text for every Program whose
\* expressions are all of known types.
C11_OneDefinitionPerFunction ==
   /\ (IsProgram(ast) /\ ~HasUnknown(ast) /\ phase \notin {"source", "parsed"})
         => js # NoText
   /\ phase = "generated" => TopLevel(js) = Definitions(ast)

\* The text of three functions with a record, an annotation and a union
\* between them has been generated.
C11_Witness ==
   /\ phase = "generated"
   /\ src = DeclBetweenText
   /\ Len(Functions(ast)) = 3
   /\ Len(ast.statements) = 6

\* ------------------------------------------------------------------------
\* C12: what print and printLn append
\* ------------------------------------------------------------------------

\* The next step of the running code is a call of print or of printLn.
Printing == Running /\ Instr.op = "call" /\ Callee.t = "builtin"

\* The text of the argument of that call.
Printed == ToStr(IF Instr.argc = 0 THEN VUndef ELSE Args[1])

\* C12: a call of print appends the text of its argument to the buffer, a
\* call of printLn that text and one line break, and no other step changes
\* the buffer, so that the buffer is what the calls appended, in the order
\* of the calls; the entry point of the hello world test returns the buffer
\* "Hello World".
C12_PrintAppends ==
   /\ [][IF Printing
         THEN stdout' = stdout \o Printed
                        \o (IF Callee.name = "printLn" THEN NL ELSE "")
         ELSE stdout' = stdout]_vars
   /\ [](Returned /\ src = HelloWorldText => stdout = "Hello World")

\* printLn of a number and then print of a text have run, and the entry
\* point has returned.
C12_Witness == Returned /\ src = PrintBothText /\ stdout = "1" \o NL \o "a"

\* ------------------------------------------------------------------------
\* C13: the exit status of the command line
\* ------------------------------------------------------------------------

Exited == cli.pc = "exited"

Help(args) ==
   Len(args) = 0 \/ "--help" \in Range(args) \/ "-h" \in Range(args)

RECURSIVE IsOptionAt(_, _)
\* The k-th argument is not the code that follows an -e or --eval.
IsOptionAt(args, k) ==
   k = 1 \/ ~(IsOptionAt(args, k - 1) /\ args[k - 1] \in {"-e", "--eval"})

\* -e or --eval is the last argument, and no code itself.
EvalLast(args) ==
   /\ Len(args) > 0
   /\ args[Len(args)] \in {"-e", "--eval"}
   /\ IsOptionAt(args, Len(args))

\* The k-th argument gives code: an -e or --eval before a text that is not
\* empty, or the path of a file with such a text.
Gives(args, k) ==
   /\ IsOptionAt(args, k)
   /\ \/ args[k] \in {"-e", "--eval"} /\ k < Len(args) /\ args[k + 1] # ""
      \/ args[k] \in DOMAIN Files /\ Files[args[k]] # ""

\* A path of no readable file is met before any code is given.
UnreadablePath(args) ==
   \E k \in 1..Len(args) :
      /\ IsOptionAt(args, k)
      /\ ~startsWith(args[k])
      /\ args[k] \notin DOMAIN Files
      /\ \A j \in 1..(k - 1) : ~Gives(args, j)

\* No argument gives code.
NoCode(args) == \A k \in 1..Len(args) : ~Gives(args, k)

\* A line of generated code, beautified or not.
IsGenerated(line) == line[1] = PROLOGUE

\* C13: when the command line has exited, its status is 0 if it printed
\* generated code or the usage text; and if help was not asked for and
\* -e or --eval was the last argument, or a path could not be read, or no
\* argument gave code, its status is 1; with status 1 it printed no
\* generated code.
C13_ExitStatus ==
   Exited =>
      /\ (\E k \in 1..Len(cli.log) :
            cli.log[k] = <<USAGE>> \/ IsGenerated(cli.log[k]))
            => cli.status = 0
      /\ (~Help(cli.args)
            /\ (EvalLast(cli.args) \/ UnreadablePath(cli.args)
                  \/ NoCode(cli.args)))
            => cli.status = 1
      /\ cli.status = 1 =>
            \A k \in 1..Len(cli.log) : ~IsGenerated(cli.log[k])
      /\ Help(cli.args) => cli.status = 0 /\ cli.log = <<<<USAGE>>>>

\* The code of a file was read, --eval was met as the last argument, and
\* the command line has exited with status 1 and nothing printed.
C13_Witness ==
   /\ Exited
   /\ cli.args = <<"hello.jml", "--eval">>
   /\ cli.code = PrintLnText
   /\ cli.status = 1
   /\ cli.log = <<>>

\* ------------------------------------------------------------------------
\* C14: the result when beautify.js fails
\* ------------------------------------------------------------------------

\* The command line has printed the result of processing its code.
Processed ==
   Exited /\ cli.i > Len(cli.args) /\ cli.code # "" /\ cli.log # <<>>

\* parse and generate returned, and beautify.js was called and threw.
BeautifyFailed ==
   /\ Translate(cli.code) \notin {SyntaxErrorThrown, GenerationError}
   /\ cli.file = "cli.ts" => cli.options.beautify
   /\ cli.fails

\* part is in text, whole and in one piece.
Contains(text, part) ==
   \E k \in 0..(Len(text) - Len(part)) :
      SubSeq(text, k + 1, k + Len(part)) = part

\* What the same call gives for a text that parse rejects.
Rejected ==
   IF cli.file = "cli.ts"
   THEN processJoemlCode(UnterminatedStringText, cli.options, FALSE)
   ELSE compile(UnterminatedStringText, cli.options, FALSE)

\* C14: when beautify.js throws after parse and generate have returned, the
\* result that is printed holds the whole generated text as generate
\* returned it, and is not the result for a text that parse rejects.
C14_BeautifyFailureKeepsCode ==
   (Processed /\ BeautifyFailed) =>
      /\ Contains(cli.log[1], Translate(cli.code))
      /\ cli.log[1] # Rejected

\* ------------------------------------------------------------------------
\* C15: the operands of an application
\* ------------------------------------------------------------------------

\* The application of the name to no operand.
Bare(name) == App(name, <<>>)

\* C15: `f a b` parses as the application of f to the two parameters a and
\* b, each an application to no operand, and `f (g a) b` as the application
\* of f to two parameters, the first the application of g to a.
C15_BareOperandsAreParameters ==
   /\ (phase = "parsed" /\ src = BareOperandsText) =>
         MainBody(ast) = App("f", <<Bare("a"), Bare("b")>>)
   /\ (phase = "parsed" /\ src = ParenOperandText) =>
         MainBody(ast)
            = App("f", <<App("g", <<Bare("a")>>), Bare("b")>>)

\* ------------------------------------------------------------------------
\* C16: the arguments of a loop continuation
\* ------------------------------------------------------------------------

\* The running code is at the continue of function f of the text.
AtContinue(f) ==
   /\ Running
   /\ calls = 0
   /\ Instr.op = "continue"
   /\ FnOf(Top.fn).name = f

\* C16: at the continue of f in `f a b { if a == 0 then b else f (a - 1)
\* (a) }` the parameter b holds what a held before the continuation, one
\* more than a holds now; and what the programs with this f, and with a
\* self tail call that exchanges two parameters, return and print is what
\* the recursion returns and prints, every argument computed from the
\* parameters of before the call.
C16_ArgumentsUseOldValues ==
   /\ (src \in OldValueTexts /\ AtContinue("f")) =>
         /\ Top.vars["a"].t = "num" /\ Top.vars["b"].t = "num"
         /\ Top.vars["b"].n = Top.vars["a"].n + 1
   /\ (Returned /\ src \in OldValueTexts \cup { SwapText(n) : n \in 0..MaxN }) =>
         /\ RefRun(ast).st = "ok"
         /\ result = RefRun(ast).v
         /\ stdout = RefRun(ast).out

\* f (3) (9) is at its third continuation: a holds 0 and b the 1 that a
\* held before.
C16_Witness ==
   /\ src = OldValueText(3, MaxN + 5)
   /\ AtContinue("f")
   /\ Top.vars["a"] = VNum(0)
   /\ Top.vars["b"] = VNum(1)

\* ------------------------------------------------------------------------
\* C17: the Application of an infix chain
\* ------------------------------------------------------------------------

RECURSIVE LeftFold(_)
\* (((e0 op1 e1) op2 e2) ... opk ek) of the operands and the operators ops.
LeftFold(ops) ==
   IF ops = <<>> THEN Num(Operands[1])
   ELSE App(ops[Len(ops)],
            <<LeftFold(SubSeq(ops, 1, Len(ops) - 1)),
              Num(Operands[Len(ops) + 1])>>)

\* C17: a chain of numbers e0 op1 e1 ... opk ek parses to the left fold of
\* binary Applications, each operator with the operand that follows it in
\* the text as its second parameter.
C17_InfixChainIsLeftFold ==
   \A ops \in NumberChains :
      (phase = "parsed" /\ src = NumberChainText(ops)) =>
         MainBody(ast) = LeftFold(ops)

\* ------------------------------------------------------------------------
\* C18: the value of an infix Application
\* ------------------------------------------------------------------------

\* C18: a main whose body is an infix Application with an infix Application
\* in parentheses, or an if expression, as an argument returns the operator
\* applied to the values of the two arguments.
C18_InfixKeepsGrouping ==
   (Returned /\ src \in GroupedTexts) =>
      /\ RefRun(ast).st = "ok"
      /\ result = RefRun(ast).v

\* ------------------------------------------------------------------------
\* C19: which Applications are written as operators
\* ------------------------------------------------------------------------

\* C19: the Application of a name that is none of the nine operators to the
\* numbers 1 and 2 is written as the call name(1, 2) and not with the name
\* between the two arguments, whatever lower identifier the name is.
C19_OnlyOperatorsAreInfix ==
   \A name \in CallNames :
      (phase = "generated" /\ src = NamedCallText(name)) =>
         /\ Contains(js, <<name, "(", "1", ",", "2", ")">>)
         /\ ~Contains(js, <<"1", name, "2">>)

\* ------------------------------------------------------------------------
\* C20: no identifier is a keyword
\* ------------------------------------------------------------------------

RECURSIVE NamesIn(_)
\* The values of the identifiers of expr: the names that are applied, and
\* the names and the parameters of the functions of its lets.
NamesIn(expr) ==
   (IF expr.type = "application" THEN {expr.name.value} ELSE {})
   \cup (IF expr.type = "let-expression"
         THEN UNION { {b.name.value} \cup { p.value : p \in Range(b.parameters) } :
                        b \in Range(expr.bindings) }
         ELSE {})
   \cup UNION { NamesIn(Children(expr)[i]) : i \in 1..Len(Children(expr)) }

ProgramNames(program) ==
   UNION { {f.name.value} \cup { p.value : p \in Range(f.parameters) }
           \cup NamesIn(f.body) : f \in Range(Functions(program)) }

\* A word begins at position i of text.
WordStart(text, i) == i = 1 \/ Char(text, i - 1) \notin IdentChars

\* C20: wherever a word begins in the text given to parse, the Identifier
\* rule does not succeed with a keyword as its value, whatever follows the
\* keyword; and no identifier of a Program that parse returned is a keyword.
C20_IdentifierIsNoKeyword ==
   /\ (phase = "parsed" \/ (phase = "failed" /\ error = "ParseError")) =>
         \A i \in 1..Len(src) :
            (WordStart(src, i) /\ Identifier(src, i, <<>>).ok) =>
               Identifier(src, i, <<>>).val.value \notin Range(Keywords)
   /\ (phase = "parsed" /\ src # "") =>
         ProgramNames(ast) \cap Range(Keywords) = {}

\* ------------------------------------------------------------------------
\* C21: which functions are wrapped in a labeled loop
\* ------------------------------------------------------------------------

\* The tokens from the head of the definition of f to the loop that its
\* body is wrapped in.
LoopHead(f) ==
   <<"function", f.name.value, "(">>
   \o Join([i \in 1..Len(f.parameters) |-> <<f.parameters[i].value>>],
           <<",">>)
   \o <<")", "{", NL, NL, f.name.value, ":", NL, "while", "(", "true", ")">>

\* The tokens from the head of the definition of f to the block of it.
PlainHead(f) ==
   <<"function", f.name.value, "(">>
   \o Join([i \in 1..Len(f.parameters) |-> <<f.parameters[i].value>>],
           <<",">>)
   \o <<")", "{", NL>>

RECURSIVE StructuralTailCalls(_, _, _, _)
\* The applications of x to n arguments in tail position in expr: expr
\* itself, a branch of the if or the body of the let that expr is, and so
\* on.
StructuralTailCalls(x, n, expr, path) ==
   IF expr.type = "application" /\ expr.name.value = x
   THEN IF Len(expr.parameters) = n THEN {path} ELSE {}
   ELSE IF expr.type = "if-expression"
   THEN StructuralTailCalls(x, n, expr.true_expression, Append(path, 2))
        \cup StructuralTailCalls(x, n, expr.false_expression, Append(path, 3))
   ELSE IF expr.type = "let-expression"
   THEN StructuralTailCalls(x, n, expr.body, Append(path, 0))
   ELSE {}

\* C21: the generated definition of a function has its body in a labeled
\* loop if and only if the body has a call in tail position with the name
\* and the number of arguments of the function.
C21_LoopIffMatchingTailCall ==
   phase = "generated" =>
      \A f \in AllFunctions(ast) :
         /\ Contains(js, PlainHead(f))
         /\ Contains(js, LoopHead(f))
            <=> StructuralTailCalls(f.name.value, Len(f.parameters), f.body,
                                    <<>>) # {}

\* ------------------------------------------------------------------------
\* C22: every branch of a loop-wrapped function leaves the loop or continues
\* ------------------------------------------------------------------------

\* The functions of program whose body generateFunction wraps in a loop.
Wrapped(program) ==
   { f \in AllFunctions(program) : tailCalls(f.name.value, f.body, <<>>) # {} }

\* The running code is at the end of the block of a labeled loop, about to
\* start the next iteration: at the jump that closes the loop, the last of
\* the jumps to its label.
AtLoopEnd ==
   /\ Running
   /\ Instr.op = "continue"
   /\ \A i \in (Top.pc + 1)..Len(FnOf(Top.fn).code) :
         FnOf(Top.fn).code[i] # Instr

\* C22: the code of a program with a loop-wrapped function never reaches the
\* end of the block of a loop, where the next iteration starts with no
\* continuation before it; and when the recursion of the program ends with
\* a value, the first call of the entry point returns, with that value.
C22_BranchesLeaveTheLoop ==
   /\ [](~AtLoopEnd)
   /\ (phase = "running" /\ calls = 0 /\ Wrapped(ast) # {}
          /\ RefRun(ast).st = "ok")
       ~> (Returned /\ result = RefRun(ast).v)

\* ------------------------------------------------------------------------
\* C23: where a loop continuation is written
\* ------------------------------------------------------------------------

\* The number of parentheses of text that are open at its i-th token.
Nesting(text, i) ==
   Cardinality({ j \in 1..(i - 1) : text[j] = "(" })
   - Cardinality({ j \in 1..(i - 1) : text[j] = ")" })

\* The first brace of text after its j-th token.
BlockOf(text, j) == CHOOSE b \in (j + 1)..Len(text) :
                       text[b] = "{" /\ \A k \in (j + 1)..(b - 1) : text[k] # "{"

\* The function keyword of the innermost function of text that its i-th
\* token is in the block of.
Enclosing(text, i) ==
   LET around == { j \in 1..(i - 1) :
                     /\ text[j] = "function"
                     /\ BlockOf(text, j) < i
                     /\ \A k \in BlockOf(text, j)..i :
                           Depth(text, k) >= Depth(text, BlockOf(text, j)) }
   IN CHOOSE j \in around : \A k \in around : k <= j

\* The `continue` at token i of text is a statement of the loop labeled with
\* its label, and that loop is the block of the function of that name
\* around it: no function and no parenthesis lies between them.
InItsLoop(text, i) ==
   LET j == Enclosing(text, i)
       b == BlockOf(text, j)
   IN /\ text[j + 1] = text[i + 1]
      /\ SubSeq(text, b + 1, b + 4) = <<NL, NL, text[i + 1], ":">>
      /\ Nesting(text, i) = Nesting(text, j)

\* C23: every `continue` of the generated text is a statement directly in
\* the loop with its label of the function with its name, whether the
\* self-call it is written for is a branch of an if or the body of a let.
C23_ContinuationInItsLoop ==
   phase = "generated" =>
      \A i \in 1..Len(js) : js[i] = "continue" => InItsLoop(js, i)

\* ------------------------------------------------------------------------
\* C24: the must-return flag and the returns of the generated text
\* ------------------------------------------------------------------------

RECURSIVE Total(_)
Total(ns) == IF ns = <<>> THEN 0 ELSE Head(ns) + Total(Tail(ns))

\* The positions of the token t in text.
Tokens(text, t) == { i \in 1..Len(text) : text[i] = t }

\* The last token of text before its i-th that is no line break, and "{"
\* when there is none.
Before(text, i) ==
   LET at == { j \in 1..(i - 1) : text[j] # NL }
   IN IF at = {} THEN "{" ELSE text[CHOOSE j \in at : \A k \in at : k <= j]

RECURSIVE ReturnsOf(_, _, _, _)
\* The number of returns for the expression at path in the body of fn,
\* generated with the flag must: one for a number, a string and a call that
\* is no self tail call of fn when the flag is true, none when it is false;
\* the flag is false for the arguments of a call and of a tail call, for
\* the predicate of an if, for the body of a let and for every part of an
\* if with the flag false, and true for the branches of an if with the flag
\* true and the body of each function bound by a let; the function
\* expression of a let returns the body of the let.
ReturnsOf(fn, expr, path, must) ==
   IF expr.type = "application"
   THEN (IF must /\ path \notin StructuralTailCalls(fn.name.value,
                                                     Len(fn.parameters),
                                                     fn.body, <<>>)
         THEN 1 ELSE 0)
        + Total([i \in 1..Len(expr.parameters) |->
                   ReturnsOf(fn, expr.parameters[i], Append(path, i), FALSE)])
   ELSE IF expr.type = "if-expression"
   THEN ReturnsOf(fn, expr.predicate, Append(path, 1), FALSE)
        + ReturnsOf(fn, expr.true_expression, Append(path, 2), must)
        + ReturnsOf(fn, expr.false_expression, Append(path, 3), must)
   ELSE IF expr.type = "let-expression"
   THEN 1 + Total([i \in 1..Len(expr.bindings) |->
                     ReturnsOf(expr.bindings[i], expr.bindings[i].body, <<>>,
                               TRUE)])
        + ReturnsOf(fn, expr.body, Append(path, 0), FALSE)
   ELSE IF must THEN 1 ELSE 0

\* C24: every return of the generated text starts a statement of the
\* function around it, in no parenthesis of an argument or a predicate and
\* in no part of a ternary; and the text has one return for each number,
\* string and call, short of the self tail calls, that the flag is true
\* for - the flag true at the root of each function body and handed on by
\* an if to its two branches only - and one for each let.
C24_ReturnOnlyWhereFlagged ==
   phase = "generated" =>
      /\ \A i \in Tokens(js, "return") :
            /\ Nesting(js, i) = Nesting(js, Enclosing(js, i))
            /\ Before(js, i) \in {"{", "}", ";"}
      /\ Cardinality(Tokens(js, "return"))
            = Total([k \in 1..Len(Functions(ast)) |->
                       ReturnsOf(Functions(ast)[k], Functions(ast)[k].body,
                                 <<>>, TRUE)])

\* The text of the tail-recursive fibHelp, fib and main has been generated:
\* two ifs with the flag true, their predicates, the arguments of the self
\* tail call and of two calls; four returns and one continuation.
C24_Witness ==
   /\ phase = "generated"
   /\ src = TailFibText(1)
   /\ Cardinality(Tokens(js, "return")) = 4
   /\ Cardinality(Tokens(js, "continue")) = 1
   /\ Cardinality(Tokens(js, "if")) = 2

\* ------------------------------------------------------------------------
\* C25: a parameter of the outer function read in a let-bound function
\* ------------------------------------------------------------------------

\* C25: in `f n { let g { n } in { g } }`, and with the let as the argument
\* of print, the body of g is written as a read of n and n is called
\* nowhere; the program runs without an exception and prints the argument
\* of f, 3.
C25_OuterParameterIsRead ==
   src \in LetParamTexts =>
      /\ phase = "generated" =>
            /\ Contains(js, <<"function", "g", "(", ")", "{", NL,
                              "return", "n", NL, "}">>)
            /\ ~Contains(js, <<"n", "(", ")">>)
      /\ phase # "failed"
      /\ Returned => stdout = "3"

\* ------------------------------------------------------------------------
\* C26: the output buffer of each call of the entry point
\* ------------------------------------------------------------------------

\* A call of the entry point starts.
Invoked == phase = "loaded" /\ phase' = "running"

\* C26: the buffer that a call of the entry point returns holds what was
\* printed during that call only: print and printLn only append to the
\* buffer, so it holds nothing when a call starts; and the second call of
\* the entry point of the Hello World program returns the buffer "Hello
\* World" as the first does.
C26_BufferOfOneCall ==
   /\ [][Invoked => stdout' = ""]_vars
   /\ []((phase = "loaded" /\ calls = 2 /\ src = HelloWorldText)
            => stdout = "Hello World")

====
